---- MODULE Spec2Model ----
(***************************************************************************)
(* transformMessages (packages/ai/src/providers/transform-messages.ts):    *)
(* the single pass that makes a conversation replayable against a target   *)
(* model.  The loop reads messages[i] only, so the input array is revealed *)
(* one element per loop iteration: `messages` holds the part of the input  *)
(* the loop has consumed, and `result` is what the function returns when   *)
(* the input ends there.  Date.now() timestamps are left out.              *)
(*                                                                         *)
(* AssistantMessageComponent (packages/coding-agent/src/modes/interactive/ *)
(* components/assistant-message.ts): the component that renders one        *)
(* assistant message while it streams.  Its state is its fields and the    *)
(* children of its contentContainer; its operations are the public         *)
(* methods.                                                                *)
(***************************************************************************)
EXTENDS Integers, Sequences, FiniteSets, TLC

\* ------------------------------------------------------------------------
\* Bounds of the model
\* ------------------------------------------------------------------------
\* Longest conversation of specification Spec.
MaxMsgs == 4
\* Most content blocks of the assistant message of specification SpecBlocks.
MaxBlocks == 2
\* Longest streamed text of specification SpecStreaming.
MaxText == 6

SeqsUpTo(S, n) == UNION {[1..k -> S] : k \in 0..n}

\* ------------------------------------------------------------------------
\* Strings.  A text is a sequence of characters, so that trim() is computed;
\* identifiers and signatures are atomic strings, "" being the falsy one.
\* ------------------------------------------------------------------------
WhiteSpace == {" ", "\n"}

RECURSIVE TrimStart(_)
TrimStart(t) ==
  IF t # <<>> /\ Head(t) \in WhiteSpace THEN TrimStart(Tail(t)) ELSE t

RECURSIVE TrimEnd(_)
TrimEnd(t) ==
  IF t # <<>> /\ t[Len(t)] \in WhiteSpace
    THEN TrimEnd(SubSeq(t, 1, Len(t) - 1))
    ELSE t

Trim(t) == TrimEnd(TrimStart(t))

\* JavaScript truthiness of an optional string field of a record.
Truthy(rec, f) == f \in DOMAIN rec /\ rec[f] # ""

\* ------------------------------------------------------------------------
\* The conversation model
\* ------------------------------------------------------------------------
TargetModel == [id |-> "m1", api |-> "api1", provider |-> "p1"]

UserMessage == [role |-> "user", content |-> "hi"]

CustomMessage == [role |-> "custom", content |-> "note"]

ToolResultMessage(id, name) ==
  [role |-> "toolResult", toolCallId |-> id, toolName |-> name,
   content |-> "ok", isError |-> FALSE]

SyntheticResult(tc) ==
  [role |-> "toolResult", toolCallId |-> tc.id, toolName |-> tc.name,
   content |-> "No result provided", isError |-> TRUE]

AssistantMessage(content, provider, api, modelId, stopReason) ==
  [role |-> "assistant", content |-> content, provider |-> provider,
   api |-> api, model |-> modelId, stopReason |-> stopReason]

TextBlock(t) == [type |-> "text", text |-> t]

ToolCall(id, name) ==
  [type |-> "toolCall", id |-> id, name |-> name, arguments |-> "args"]

\* delete obj[f]
DeleteField(rec, f) == [g \in DOMAIN rec \ {f} |-> rec[g]]

\* { ...obj, f: v }
WithField(rec, f, v) == [g \in DOMAIN rec \cup {f} |-> IF g = f THEN v ELSE rec[g]]

\* ------------------------------------------------------------------------
\* The optional id-normalising callback.  NoCallback is `undefined`;
\* a callback is a function of the id (the one cross-model source of the
\* model's inputs makes its other arguments constant).
\* ------------------------------------------------------------------------
Ids == {"a", "b", "c", ""}

\* The ids of the input's tool calls and tool results.
InputIds == {"a", "b"}

NoCallback == <<>>

\* The callbacks of the model's inputs: any function of the input ids into
\* Ids; an id outside InputIds (the empty id) is returned unchanged.
Callbacks == [InputIds -> Ids]

CallNormalize(fn, id, model, source) == IF id \in DOMAIN fn THEN fn[id] ELSE id

\* ------------------------------------------------------------------------
\* The pass.  Its state is the record
\*   [result, toolCallIdMap, pendingToolCalls, existingToolResultIds].
\* ------------------------------------------------------------------------
EmptyMap == <<>>

MapGet(m, k) == IF k \in DOMAIN m THEN <<m[k]>> ELSE <<>>

MapSet(m, k, v) == (k :> v) @@ m

InitState ==
  [result |-> <<>>, toolCallIdMap |-> EmptyMap,
   pendingToolCalls |-> <<>>, existingToolResultIds |-> {}]

RECURSIVE SyntheticResults(_, _)
SyntheticResults(pending, existing) ==
  IF pending = <<>> THEN <<>>
  ELSE (IF Head(pending).id \notin existing
          THEN <<SyntheticResult(Head(pending))>>
          ELSE <<>>)
       \o SyntheticResults(Tail(pending), existing)

\* Mutant: the flush leaves the batch in place.
FlushPendingKeepingBatch(st) ==
  IF Len(st.pendingToolCalls) > 0
    THEN [st EXCEPT
            !.result = st.result
                         \o SyntheticResults(st.pendingToolCalls,
                                             st.existingToolResultIds)]
    ELSE st

\* Lines 299-314 and 331-346: insert synthetic results for orphaned calls.
FlushPending(st) ==
  IF Len(st.pendingToolCalls) > 0
    THEN [st EXCEPT
            !.result = st.result
                         \o SyntheticResults(st.pendingToolCalls,
                                             st.existingToolResultIds),
            !.pendingToolCalls = <<>>,
            !.existingToolResultIds = {}]
    ELSE st

\* Mutant: the user branch without the flush of lines 299-314.
UserBranchWithoutFlush(st, msg) ==
  [st EXCEPT !.result = Append(st.result, msg)]

UserBranch(st, msg) ==
  LET f == FlushPending(st)
  IN  [f EXCEPT !.result = Append(f.result, msg)]

NormalizeResultId(map, msg) ==
  LET normalizedId == MapGet(map, msg.toolCallId)
  IN  IF normalizedId # <<>> /\ normalizedId[1] # ""
         /\ normalizedId[1] # msg.toolCallId
        THEN [msg EXCEPT !.toolCallId = normalizedId[1]]
        ELSE msg

\* Mutant: a tool result that answers no call of the pending batch is
\* dropped.
ToolResultBranchDropping(st, msg) ==
  LET transformed == NormalizeResultId(st.toolCallIdMap, msg)
      answers ==
        \E k \in 1..Len(st.pendingToolCalls) :
          st.pendingToolCalls[k].id = transformed.toolCallId
  IN  IF answers
        THEN [st EXCEPT
                !.existingToolResultIds = @ \cup {transformed.toolCallId},
                !.result = Append(st.result, transformed)]
        ELSE st

\* Mutant: the id of the result is not added to existingToolResultIds.
ToolResultBranchUntracked(st, msg) ==
  LET transformed == NormalizeResultId(st.toolCallIdMap, msg)
  IN  [st EXCEPT !.result = Append(st.result, transformed)]

\* Mutant: a tool result flushes the pending batch as a user message does.
ToolResultBranchFlushing(st, msg) ==
  LET f == FlushPending(st)
      transformed == NormalizeResultId(f.toolCallIdMap, msg)
  IN  [f EXCEPT
         !.existingToolResultIds = @ \cup {transformed.toolCallId},
         !.result = Append(f.result, transformed)]

\* Mutant: a tool result takes back the synthetic results emitted for its id.
ToolResultBranchRetracting(st, msg) ==
  LET transformed == NormalizeResultId(st.toolCallIdMap, msg)
      kept ==
        SelectSeq(st.result,
                  LAMBDA m : ~(/\ m.role = "toolResult"
                               /\ m.isError
                               /\ m.toolCallId = transformed.toolCallId))
  IN  [st EXCEPT
         !.existingToolResultIds = @ \cup {transformed.toolCallId},
         !.result = Append(kept, transformed)]

ToolResultBranch(st, msg) ==
  LET transformed == NormalizeResultId(st.toolCallIdMap, msg)
  IN  [st EXCEPT
         !.existingToolResultIds = @ \cup {transformed.toolCallId},
         !.result = Append(st.result, transformed)]

\* Mutant: only errored messages are skipped.
IsSkippedErrorOnly(assistantMsg) == assistantMsg.stopReason = "error"

IsSkipped(assistantMsg) ==
  assistantMsg.stopReason = "error" \/ assistantMsg.stopReason = "aborted"

IsSameModel(assistantMsg, model) ==
  /\ assistantMsg.provider = model.provider
  /\ assistantMsg.api = model.api
  /\ assistantMsg.model = model.id

\* Mutant: a signed thinking block is kept whatever model produced it.
TransformThinkingKeepSigned(block, isSameModel) ==
  IF Truthy(block, "thinkingSignature") THEN <<block>>
  ELSE IF block.thinking = <<>> \/ Trim(block.thinking) = <<>> THEN <<>>
  ELSE IF isSameModel THEN <<block>>
  ELSE <<TextBlock(block.thinking)>>

\* The thinking branch of the flatMap callback: a sequence of 0 or 1 blocks.
TransformThinking(block, isSameModel) ==
  IF isSameModel /\ Truthy(block, "thinkingSignature") THEN <<block>>
  ELSE IF block.thinking = <<>> \/ Trim(block.thinking) = <<>> THEN <<>>
  ELSE IF isSameModel THEN <<block>>
  ELSE <<TextBlock(block.thinking)>>

TransformText(block, isSameModel) ==
  IF isSameModel THEN <<block>> ELSE <<TextBlock(block.text)>>

\* Mutant: the thoughtSignature is never removed.
StripThoughtSignatureNever(toolCall, isSameModel) == toolCall

StripThoughtSignature(toolCall, isSameModel) ==
  IF ~isSameModel /\ Truthy(toolCall, "thoughtSignature")
    THEN DeleteField(toolCall, "thoughtSignature")
    ELSE toolCall

\* Mutant: the callback is consulted for same-model messages too.
NormalizedIdOfAnyModel(toolCall, isSameModel, fn, model, source) ==
  IF fn # NoCallback
    THEN CallNormalize(fn, toolCall.id, model, source)
    ELSE toolCall.id

\* The id the callback gives a tool call, or the call's own id where the
\* callback is not consulted.
NormalizedIdOf(toolCall, isSameModel, fn, model, source) ==
  IF ~isSameModel /\ fn # NoCallback
    THEN CallNormalize(fn, toolCall.id, model, source)
    ELSE toolCall.id

TransformToolCall(toolCall, isSameModel, fn, model, source) ==
  LET stripped == StripThoughtSignature(toolCall, isSameModel)
      normalizedId == NormalizedIdOf(toolCall, isSameModel, fn, model, source)
  IN  IF normalizedId # toolCall.id
        THEN <<WithField(stripped, "id", normalizedId)>>
        ELSE <<stripped>>

TransformBlock(block, isSameModel, fn, model, source) ==
  IF block.type = "thinking" THEN TransformThinking(block, isSameModel)
  ELSE IF block.type = "text" THEN TransformText(block, isSameModel)
  ELSE IF block.type = "toolCall"
    THEN TransformToolCall(block, isSameModel, fn, model, source)
  ELSE <<block>>

RECURSIVE TransformContent(_, _, _, _, _)
TransformContent(content, isSameModel, fn, model, source) ==
  IF content = <<>> THEN <<>>
  ELSE TransformBlock(Head(content), isSameModel, fn, model, source)
       \o TransformContent(Tail(content), isSameModel, fn, model, source)

\* toolCallIdMap.set calls of the flatMap callback, in block order.
RECURSIVE RecordIds(_, _, _, _, _, _)
RecordIds(map, content, isSameModel, fn, model, source) ==
  IF content = <<>> THEN map
  ELSE LET block == Head(content)
           changed ==
             /\ block.type = "toolCall"
             /\ NormalizedIdOf(block, isSameModel, fn, model, source) # block.id
           next ==
             IF changed
               THEN MapSet(map, block.id,
                           NormalizedIdOf(block, isSameModel, fn, model, source))
               ELSE map
       IN  RecordIds(next, Tail(content), isSameModel, fn, model, source)

IsToolCall(b) == b.type = "toolCall"

\* Mutant: the batch a new assistant message installs keeps the ids of the
\* tool results seen so far.
TrackToolCallsKeepingResults(st, toolCalls) ==
  IF Len(toolCalls) > 0
    THEN [st EXCEPT !.pendingToolCalls = toolCalls]
    ELSE st

\* Lines 407-412: the batch a new assistant message installs.
TrackToolCalls(st, toolCalls) ==
  IF Len(toolCalls) > 0
    THEN [st EXCEPT !.pendingToolCalls = toolCalls,
                    !.existingToolResultIds = {}]
    ELSE st

\* Mutant: the emitted message is stamped with the target's identity.
AssistantBranchRestamped(st, msg, model, fn) ==
  LET f == FlushPending(st)
  IN  IF IsSkipped(msg) THEN f
      ELSE
        LET isSameModel == IsSameModel(msg, model)
            transformedContent ==
              TransformContent(msg.content, isSameModel, fn, model, msg)
            transformed ==
              [msg EXCEPT !.content = transformedContent,
                          !.provider = model.provider,
                          !.api = model.api,
                          !.model = model.id]
            toolCalls == SelectSeq(transformedContent, IsToolCall)
            mapped ==
              [f EXCEPT !.toolCallIdMap =
                 RecordIds(f.toolCallIdMap, msg.content, isSameModel, fn,
                           model, msg)]
            tracked == TrackToolCalls(mapped, toolCalls)
        IN  [tracked EXCEPT !.result = Append(tracked.result, transformed)]

\* Mutant: an errored or aborted message is skipped before the flush.
AssistantBranchSkippingFirst(st, msg, model, fn) ==
  IF IsSkipped(msg) THEN st
  ELSE
    LET f == FlushPending(st)
        isSameModel == IsSameModel(msg, model)
        transformedContent ==
          TransformContent(msg.content, isSameModel, fn, model, msg)
        transformed == [msg EXCEPT !.content = transformedContent]
        toolCalls == SelectSeq(transformedContent, IsToolCall)
        mapped ==
          [f EXCEPT !.toolCallIdMap =
             RecordIds(f.toolCallIdMap, msg.content, isSameModel, fn,
                       model, msg)]
        tracked == TrackToolCalls(mapped, toolCalls)
    IN  [tracked EXCEPT !.result = Append(tracked.result, transformed)]

\* Mutant: a message left without content by the transformation is not
\* emitted.
AssistantBranchDroppingEmptied(st, msg, model, fn) ==
  LET f == FlushPending(st)
  IN  IF IsSkipped(msg) THEN f
      ELSE
        LET isSameModel == IsSameModel(msg, model)
            transformedContent ==
              TransformContent(msg.content, isSameModel, fn, model, msg)
            transformed == [msg EXCEPT !.content = transformedContent]
            toolCalls == SelectSeq(transformedContent, IsToolCall)
            mapped ==
              [f EXCEPT !.toolCallIdMap =
                 RecordIds(f.toolCallIdMap, msg.content, isSameModel, fn,
                           model, msg)]
            tracked == TrackToolCalls(mapped, toolCalls)
        IN  IF transformedContent = <<>> THEN tracked
            ELSE [tracked EXCEPT !.result = Append(tracked.result, transformed)]

AssistantBranch(st, msg, model, fn) ==
  LET f == FlushPending(st)
  IN  IF IsSkipped(msg) THEN f
      ELSE
        LET isSameModel == IsSameModel(msg, model)
            transformedContent ==
              TransformContent(msg.content, isSameModel, fn, model, msg)
            transformed == [msg EXCEPT !.content = transformedContent]
            toolCalls == SelectSeq(transformedContent, IsToolCall)
            mapped ==
              [f EXCEPT !.toolCallIdMap =
                 RecordIds(f.toolCallIdMap, msg.content, isSameModel, fn,
                           model, msg)]
            tracked == TrackToolCalls(mapped, toolCalls)
        IN  [tracked EXCEPT !.result = Append(tracked.result, transformed)]

OtherBranch(st, msg) == [st EXCEPT !.result = Append(st.result, msg)]

LoopBody(st, msg, model, fn) ==
  IF msg.role = "user" THEN UserBranch(st, msg)
  ELSE IF msg.role = "toolResult" THEN ToolResultBranch(st, msg)
  ELSE IF msg.role = "assistant" THEN AssistantBranch(st, msg, model, fn)
  ELSE OtherBranch(st, msg)

RECURSIVE RunLoop(_, _, _, _)
RunLoop(st, msgs, model, fn) ==
  IF msgs = <<>> THEN st
  ELSE RunLoop(LoopBody(st, Head(msgs), model, fn), Tail(msgs), model, fn)

TransformMessages(msgs, model, fn) == RunLoop(InitState, msgs, model, fn).result

\* ------------------------------------------------------------------------
\* Inputs
\* ------------------------------------------------------------------------
CrossProvider == "p2"

CrossApi == "api2"

CrossModelId == "m2"

\* Specification Spec: conversations whose assistant messages hold tool
\* calls only.  The tool-call id lists of one message: none, one call, two
\* calls with distinct ids, two calls sharing an id.
CallLists == {<<>>, <<"a">>, <<"b">>, <<"a", "b">>, <<"a", "a">>}

CallContent(ids) == [k \in 1..Len(ids) |-> ToolCall(ids[k], "read")]

EmittedAssistants ==
  {AssistantMessage(CallContent(ids), p, TargetModel.api, TargetModel.id,
                    "toolUse") :
     ids \in CallLists, p \in {TargetModel.provider, CrossProvider}}

SkippedAssistants ==
  {AssistantMessage(CallContent(<<"a">>), TargetModel.provider,
                    TargetModel.api, TargetModel.id, s) :
     s \in {"error", "aborted"}}

Messages ==
  {UserMessage, CustomMessage}
    \cup {ToolResultMessage(i, "read") : i \in InputIds}
    \cup EmittedAssistants \cup SkippedAssistants

\* Specification SpecBlocks: one assistant message with any content blocks.
ThinkingTexts == {<<>>, <<" ">>, <<"x">>, <<" ", "x">>}

ThinkingBlocks ==
  {[type |-> "thinking", thinking |-> t] : t \in ThinkingTexts}
    \cup {[type |-> "thinking", thinking |-> t, thinkingSignature |-> s] :
            t \in ThinkingTexts, s \in {"", "sig"}}

TextBlocks ==
  {TextBlock(<<"x">>),
   [type |-> "text", text |-> <<"x">>, textSignature |-> "sig"]}

ToolCallBlocks ==
  {ToolCall(i, "read") : i \in InputIds}
    \cup {WithField(ToolCall(i, "read"), "thoughtSignature", s) :
            i \in InputIds, s \in {"", "sig"}}

Blocks == ThinkingBlocks \cup TextBlocks \cup ToolCallBlocks

Identities ==
  {<<TargetModel.provider, TargetModel.api, TargetModel.id>>,
   <<CrossProvider, TargetModel.api, TargetModel.id>>,
   <<TargetModel.provider, CrossApi, TargetModel.id>>,
   <<TargetModel.provider, TargetModel.api, CrossModelId>>}

StopReasons == {"stop", "toolUse", "error", "aborted"}

BlockMessages ==
  {AssistantMessage(c, i[1], i[2], i[3], s) :
     c \in SeqsUpTo(Blocks, MaxBlocks), i \in Identities, s \in StopReasons}

\* ------------------------------------------------------------------------
\* The assistant-message component: pure parts
\* ------------------------------------------------------------------------
\* fullText.lastIndexOf(ch): 0-based, -1 when ch does not occur.
LastIndexOf(t, ch) ==
  LET at == {i \in 1..Len(t) : t[i] = ch}
  IN  IF at = {} THEN -1
      ELSE (CHOOSE i \in at : \A j \in at : j <= i) - 1

\* t.slice(from, to), 0-based, `to` exclusive.
Slice(t, from, to) == SubSeq(t, from + 1, to)

\* Mutant: the text up to the first newline.
BufferToFirstLine(fullText) ==
  LET at == {i \in 1..Len(fullText) : fullText[i] = "\n"}
  IN  IF at = {} THEN <<>>
      ELSE SubSeq(fullText, 1, CHOOSE i \in at : \A j \in at : i <= j)

\* Mutant: the text up to the last white-space character.
BufferToCompleteWords(fullText) ==
  LET at == {i \in 1..Len(fullText) : fullText[i] \in WhiteSpace}
  IN  IF at = {} THEN <<>>
      ELSE SubSeq(fullText, 1, CHOOSE i \in at : \A j \in at : j <= i)

BufferToCompleteLines(fullText) ==
  LET lastNewline == LastIndexOf(fullText, "\n")
  IN  IF lastNewline = -1 THEN <<>>
      ELSE Slice(fullText, 0, lastNewline + 1)

\* The render units a container holds.  A Markdown unit is an object: `id`
\* tells the instances apart, `text` is what setText last gave it.
Spacer == [kind |-> "Spacer"]

Text(text, style) == [kind |-> "Text", text |-> text, style |-> style]

Markdown(id, text, style) ==
  [kind |-> "Markdown", id |-> id, text |-> text, style |-> style]

\* lastMessage before the first updateContent.
NoMessage == <<>>

\* The component after its constructor, called without a message.
Constructor(hide) ==
  [streaming |-> TRUE, hideThinkingBlock |-> hide, lastMessage |-> NoMessage,
   markdownPool |-> EmptyMap, contentContainer |-> <<>>]

\* The Markdown instances a pool, or a container, refers to.
PoolIds(pool) == {pool[k].id : k \in DOMAIN pool}

ContainerIds(children) ==
  {children[k].id : k \in {j \in 1..Len(children) :
                             children[j].kind = "Markdown"}}

\* The instances alive when an operation starts.
Live(c) == PoolIds(c.markdownPool) \cup ContainerIds(c.contentContainer)

\* new Markdown(...): an instance distinct from those of `used`.  An
\* instance is named by the key it is created for and a number; instances
\* created for different keys are different objects.
NewId(key, used) ==
  LET taken == {n \in 0..Cardinality(used) : <<key, n>> \in used}
  IN  <<key, CHOOSE n \in 0..Cardinality(used) :
               n \notin taken /\ \A j \in 0..(n - 1) : j \in taken>>

\* Mutant: the pooled instance is never reused.
GetMarkdownAlwaysNew(pool, key, text, style, live) ==
  LET id == NewId(key, live \cup PoolIds(pool))
  IN  [pool |-> MapSet(pool, key, [id |-> id, style |-> style]),
       md |-> Markdown(id, text, style)]

\* The pool after the call, and the instance returned.
GetMarkdown(pool, key, text, style, live) ==
  IF key \in DOMAIN pool
    THEN [pool |-> pool,
          md |-> Markdown(pool[key].id, text, pool[key].style)]
    ELSE LET id == NewId(key, live \cup PoolIds(pool))
         IN  [pool |-> MapSet(pool, key, [id |-> id, style |-> style]),
              md |-> Markdown(id, text, style)]

\* (c.type === "text" && c.text.trim()) ||
\* (c.type === "thinking" && c.thinking.trim())
IsVisible(c) ==
  \/ c.type = "text" /\ Trim(c.text) # <<>>
  \/ c.type = "thinking" /\ Trim(c.thinking) # <<>>

\* Mutant: only text blocks count as visible content.
HasVisibleTextContent(content) ==
  \E k \in 1..Len(content) :
    content[k].type = "text" /\ Trim(content[k].text) # <<>>

\* Mutant: a text or thinking block counts as visible content whatever its
\* text.
HasContent(content) ==
  \E k \in 1..Len(content) : content[k].type \in {"text", "thinking"}

HasVisibleContent(content) ==
  \E k \in 1..Len(content) : IsVisible(content[k])

\* Mutant: the whole text is displayed while streaming too.
DisplayTextUnbuffered(raw, isStreaming) == Trim(raw)

\* Mutant: while streaming, only the last complete line is displayed.
DisplayTextLastLine(raw, isStreaming) ==
  IF isStreaming
    THEN LET buffered == BufferToCompleteLines(raw)
             body == Slice(buffered, 0, Len(buffered) - 1)
         IN  Trim(Slice(buffered, LastIndexOf(body, "\n") + 1, Len(buffered)))
    ELSE Trim(raw)

DisplayText(raw, isStreaming) ==
  IF isStreaming THEN Trim(BufferToCompleteLines(raw)) ELSE Trim(raw)

AddChild(c, unit) ==
  [c EXCEPT !.contentContainer = Append(c.contentContainer, unit)]

AddMarkdown(c, key, text, style, live) ==
  LET got == GetMarkdown(c.markdownPool, key, text, style, live)
  IN  AddChild([c EXCEPT !.markdownPool = got.pool], got.md)

\* Lines 135-144.
RenderText(c, i, live) ==
  LET content == c.lastMessage.content[i + 1]
      displayText == DisplayText(content.text, c.streaming)
  IN  IF displayText # <<>>
        THEN AddMarkdown(c, <<"text", i>>, displayText, "plain", live)
        ELSE c

\* Mutant: the spacer after a thinking block looks at the next block only.
HasVisibleContentAfterNext(content, i) ==
  i + 2 <= Len(content) /\ IsVisible(content[i + 2])

\* message.content.slice(i + 1).some(...)
HasVisibleContentAfter(content, i) ==
  HasVisibleContent(SubSeq(content, i + 2, Len(content)))

\* Lines 145-173.
RenderThinking(c, i, live) ==
  LET content == c.lastMessage.content[i + 1]
      after == HasVisibleContentAfter(c.lastMessage.content, i)
      shown ==
        IF c.hideThinkingBlock
          THEN AddChild(c, Text(<<"Thinking...">>, "thinkingText"))
          ELSE LET displayText == DisplayText(content.thinking, c.streaming)
               IN  IF displayText # <<>>
                     THEN AddMarkdown(c, <<"thinking", i>>, displayText,
                                      "thinkingText", live)
                     ELSE c
  IN  IF after THEN AddChild(shown, Spacer) ELSE shown

\* Mutant: the loop does not test the trimmed text of a block.
RECURSIVE RenderBlocksUnguarded(_, _, _)
RenderBlocksUnguarded(c, i, live) ==
  IF i >= Len(c.lastMessage.content) THEN c
  ELSE LET content == c.lastMessage.content[i + 1]
           next ==
             IF content.type = "text" THEN RenderText(c, i, live)
             ELSE IF content.type = "thinking" THEN RenderThinking(c, i, live)
             ELSE c
       IN  RenderBlocksUnguarded(next, i + 1, live)

\* The loop of lines 132-174, from index i (0-based) on.
RECURSIVE RenderBlocks(_, _, _)
RenderBlocks(c, i, live) ==
  IF i >= Len(c.lastMessage.content) THEN c
  ELSE LET content == c.lastMessage.content[i + 1]
           next ==
             IF content.type = "text" /\ Trim(content.text) # <<>>
               THEN RenderText(c, i, live)
             ELSE IF content.type = "thinking" /\ Trim(content.thinking) # <<>>
               THEN RenderThinking(c, i, live)
             ELSE c
       IN  RenderBlocks(next, i + 1, live)

\* Mutant: the notice is displayed beside tool calls too.
ErrorDisplayBesideToolCalls(c) ==
  LET message == c.lastMessage
  IN  IF message.stopReason = "aborted"
        THEN AddChild(AddChild(c, Spacer),
                      Text(<<"Operation aborted">>, "error"))
      ELSE IF message.stopReason = "error"
        THEN AddChild(AddChild(c, Spacer),
                      Text(<<"Error: ", "Unknown error">>, "error"))
      ELSE c

\* Mutant: the notice never shows the message's own error text.
ErrorDisplayFallbackOnly(c) ==
  LET message == c.lastMessage
      hasToolCalls ==
        \E k \in 1..Len(message.content) : message.content[k].type = "toolCall"
  IN  IF hasToolCalls THEN c
      ELSE IF message.stopReason = "aborted"
        THEN AddChild(AddChild(c, Spacer),
                      Text(<<"Operation aborted">>, "error"))
      ELSE IF message.stopReason = "error"
        THEN AddChild(AddChild(c, Spacer),
                      Text(<<"Error: ", "Unknown error">>, "error"))
      ELSE c

\* Lines 176-191.
ErrorDisplay(c) ==
  LET message == c.lastMessage
      hasToolCalls ==
        \E k \in 1..Len(message.content) : message.content[k].type = "toolCall"
  IN  IF hasToolCalls THEN c
      ELSE IF message.stopReason = "aborted"
        THEN LET abortMessage ==
                   IF Truthy(message, "errorMessage")
                        /\ message.errorMessage # "Request was aborted"
                     THEN message.errorMessage
                     ELSE "Operation aborted"
             IN  AddChild(AddChild(c, Spacer),
                          Text(<<abortMessage>>, "error"))
      ELSE IF message.stopReason = "error"
        THEN LET errorMsg ==
                   IF Truthy(message, "errorMessage")
                     THEN message.errorMessage
                     ELSE "Unknown error"
             IN  AddChild(AddChild(c, Spacer),
                          Text(<<"Error: ", errorMsg>>, "error"))
      ELSE c

\* Mutant: the container is not cleared before it is filled.
RebuildContentWithoutClear(c, live) ==
  IF c.lastMessage = NoMessage THEN c
  ELSE LET led ==
             IF HasVisibleContent(c.lastMessage.content)
               THEN AddChild(c, Spacer)
               ELSE c
       IN  ErrorDisplay(RenderBlocks(led, 0, live))

RebuildContent(c, live) ==
  IF c.lastMessage = NoMessage THEN c
  ELSE LET cleared == [c EXCEPT !.contentContainer = <<>>]
           led ==
             IF HasVisibleContent(c.lastMessage.content)
               THEN AddChild(cleared, Spacer)
               ELSE cleared
       IN  ErrorDisplay(RenderBlocks(led, 0, live))

\* Mutant: a new snapshot resumes streaming.
UpdateContentResuming(c, message) ==
  RebuildContent([c EXCEPT !.lastMessage = message, !.streaming = TRUE],
                 Live(c))

UpdateContent(c, message) ==
  RebuildContent([c EXCEPT !.lastMessage = message], Live(c))

\* Mutant: finalise does not rebuild.
FinaliseWithoutRebuild(c) == [c EXCEPT !.streaming = FALSE]

Finalise(c) ==
  LET done == [c EXCEPT !.streaming = FALSE]
  IN  IF done.lastMessage # NoMessage
        THEN RebuildContent(done, Live(c))
        ELSE done

\* Mutant: invalidate rebuilds without clearing the pool.
InvalidateKeepingPool(c) ==
  IF c.lastMessage # NoMessage
    THEN RebuildContent(c, Live(c))
    ELSE c

Invalidate(c) ==
  LET cleared == [c EXCEPT !.markdownPool = EmptyMap]
  IN  IF cleared.lastMessage # NoMessage
        THEN RebuildContent(cleared, Live(c))
        ELSE cleared

\* Mutant: the flag changes and the pool is kept.
SetHideThinkingBlockKeepingPool(c, hide) ==
  [c EXCEPT !.hideThinkingBlock = hide]

\* Mutant: a change of the flag rebuilds the output.
SetHideThinkingBlockRebuilding(c, hide) ==
  IF c.hideThinkingBlock = hide THEN c
  ELSE LET set == [c EXCEPT !.hideThinkingBlock = hide,
                            !.markdownPool = EmptyMap]
       IN  IF set.lastMessage # NoMessage
             THEN RebuildContent(set, Live(c))
             ELSE set

SetHideThinkingBlock(c, hide) ==
  IF c.hideThinkingBlock = hide THEN c
  ELSE [c EXCEPT !.hideThinkingBlock = hide, !.markdownPool = EmptyMap]

\* Specification SpecRenderer: the snapshots updateContent is given.  Texts:
\* empty, white space only, a partial line, a complete line, a complete
\* line after leading white space, a complete line and a partial one.
SnapshotTexts ==
  {<<>>, <<" ">>, <<"x">>, <<"x", "\n">>, <<" ", "x", "\n">>,
   <<"x", "\n", "y">>}

ThinkingBlock(t) == [type |-> "thinking", thinking |-> t]

SnapshotBlocks ==
  {TextBlock(t) : t \in SnapshotTexts}
    \cup {ThinkingBlock(t) : t \in SnapshotTexts}
    \cup {ToolCall("a", "read")}

\* The contents of a snapshot: no block, any one block, two blocks, the
\* first of which is a thinking block, a text block or a tool call, or
\* three blocks, a tool call between a thinking block and a last block.
FirstBlocks ==
  {ThinkingBlock(<<" ">>), ThinkingBlock(<<"x">>),
   ThinkingBlock(<<"x", "\n">>), TextBlock(<<"x", "\n", "y">>),
   ToolCall("a", "read")}

ThirdBlocks ==
  {TextBlock(<<" ">>), TextBlock(<<"x", "\n">>), ToolCall("a", "read")}

SecondBlocks ==
  {TextBlock(<<" ">>), TextBlock(<<"x">>), TextBlock(<<"x", "\n">>),
   ThinkingBlock(<<"x", "\n">>), ToolCall("a", "read")}

Contents ==
  {<<>>} \cup {<<b>> : b \in SnapshotBlocks}
    \cup {<<b1, b2>> : b1 \in FirstBlocks, b2 \in SecondBlocks}
    \cup {<<ThinkingBlock(<<"x", "\n">>), ToolCall("a", "read"), b3>> :
            b3 \in ThirdBlocks}

\* The contents of the snapshots that ended in an error or were aborted.
EndedContents ==
  {<<>>, <<TextBlock(<<"x", "\n", "y">>)>>, <<ThinkingBlock(<<"x">>)>>,
   <<TextBlock(<<"x", "\n", "y">>), ToolCall("a", "read")>>}

Snapshot(content, stopReason) ==
  AssistantMessage(content, TargetModel.provider, TargetModel.api,
                   TargetModel.id, stopReason)

\* The errorMessage of an aborted snapshot, and of one ended in an error.
ErrorMessages(stopReason) ==
  IF stopReason = "aborted"
    THEN {"", "Request was aborted", "boom"}
    ELSE {"", "boom"}

Snapshots ==
  {Snapshot(c, "stop") : c \in Contents}
    \cup {Snapshot(c, s) : c \in EndedContents, s \in {"aborted", "error"}}
    \cup UNION {{WithField(Snapshot(c, s), "errorMessage", e) :
                   c \in EndedContents, e \in ErrorMessages(s)} :
                s \in {"aborted", "error"}}

\* ------------------------------------------------------------------------
\* The state machine
\* ------------------------------------------------------------------------
VARIABLES messages, model, normalizeToolCallId,
          result, toolCallIdMap, pendingToolCalls, existingToolResultIds

\* The fields of the component, and the children of its contentContainer.
VARIABLES streaming, hideThinkingBlock, lastMessage, markdownPool,
          contentContainer

componentVars ==
  <<streaming, hideThinkingBlock, lastMessage, markdownPool, contentContainer>>

Component ==
  [streaming |-> streaming, hideThinkingBlock |-> hideThinkingBlock,
   lastMessage |-> lastMessage, markdownPool |-> markdownPool,
   contentContainer |-> contentContainer]

ComponentIs(c) ==
  /\ streaming = c.streaming
  /\ hideThinkingBlock = c.hideThinkingBlock
  /\ lastMessage = c.lastMessage
  /\ markdownPool = c.markdownPool
  /\ contentContainer = c.contentContainer

ComponentBecomes(c) ==
  LET after == c
  IN  /\ streaming' = after.streaming
      /\ hideThinkingBlock' = after.hideThinkingBlock
      /\ lastMessage' = after.lastMessage
      /\ markdownPool' = after.markdownPool
      /\ contentContainer' = after.contentContainer

\* ------------------------------------------------------------------------
\* sanitizeSurrogates: a text is a sequence of UTF-16 code units
\* ------------------------------------------------------------------------
MaxUnits == 4
MaxCalls == 2

\* Code units on both sides of every edge of the two surrogate ranges:
\* 0x0041, 0xD7FF, 0xD800, 0xDBFF, 0xDC00, 0xDFFF, 0xE000.
CodeUnits == {65, 55295, 55296, 56319, 56320, 57343, 57344}

\* [\uD800-\uDBFF]
IsHighSurrogate(unit) == unit >= 55296 /\ unit <= 56319

\* [\uDC00-\uDFFF]
IsLowSurrogate(unit) == unit >= 56320 /\ unit <= 57343

\* HAS_SURROGATE_RANGE.test(text): /[\uD800-\uDFFF]/
HasSurrogateRange(text) ==
  \E i \in 1..Len(text) : text[i] >= 55296 /\ text[i] <= 57343

\* SURROGATE_REGEX matches the code unit at position i of the text: a high
\* surrogate with no low surrogate right after it, or a low surrogate with
\* no high surrogate right before it. The lookahead and the lookbehind read
\* the text as it was passed in.
SurrogateRegexHighOnly(text, i) ==
  /\ IsHighSurrogate(text[i])
  /\ ~(i < Len(text) /\ IsLowSurrogate(text[i + 1]))

SurrogateRegexMatches(text, i) ==
  \/ /\ IsHighSurrogate(text[i])
     /\ ~(i < Len(text) /\ IsLowSurrogate(text[i + 1]))
  \/ /\ IsLowSurrogate(text[i])
     /\ ~(i > 1 /\ IsHighSurrogate(text[i - 1]))

\* text.replace(SURROGATE_REGEX, ""), from position i on: every match is
\* replaced by nothing, every other code unit is copied.
RECURSIVE ReplaceSurrogates(_, _)
ReplaceSurrogates(text, i) ==
  IF i > Len(text) THEN <<>>
  ELSE IF SurrogateRegexMatches(text, i)
         THEN ReplaceSurrogates(text, i + 1)
         ELSE <<text[i]>> \o ReplaceSurrogates(text, i + 1)

SanitizeSurrogates(text) ==
  IF ~HasSurrogateRange(text) THEN text ELSE ReplaceSurrogates(text, 1)

\* The text handed to sanitizeSurrogates, the value it has become, and how
\* often the function was applied to it.
VARIABLES sanitizeInput, sanitized, sanitizeCalls

sanitizeVars == <<sanitizeInput, sanitized, sanitizeCalls>>

NoSanitizing ==
  /\ sanitizeInput = <<>>
  /\ sanitized = <<>>
  /\ sanitizeCalls = 0

vars == <<messages, model, normalizeToolCallId,
          result, toolCallIdMap, pendingToolCalls, existingToolResultIds>>

State ==
  [result |-> result, toolCallIdMap |-> toolCallIdMap,
   pendingToolCalls |-> pendingToolCalls,
   existingToolResultIds |-> existingToolResultIds]

Becomes(st) ==
  /\ result' = st.result
  /\ toolCallIdMap' = st.toolCallIdMap
  /\ pendingToolCalls' = st.pendingToolCalls
  /\ existingToolResultIds' = st.existingToolResultIds

Init ==
  /\ messages = <<>>
  /\ model = TargetModel
  /\ normalizeToolCallId \in {NoCallback} \cup Callbacks
  /\ result = InitState.result
  /\ toolCallIdMap = InitState.toolCallIdMap
  /\ pendingToolCalls = InitState.pendingToolCalls
  /\ existingToolResultIds = InitState.existingToolResultIds
  /\ ComponentIs(Constructor(FALSE))
  /\ NoSanitizing

\* The loop reads the next element of the input.
Read(msg) ==
  /\ Len(messages) < MaxMsgs
  /\ messages' = Append(messages, msg)
  /\ UNCHANGED <<model, normalizeToolCallId>>
  /\ UNCHANGED componentVars
  /\ UNCHANGED sanitizeVars

UserStep(input) ==
  \E msg \in input :
    /\ msg.role = "user"
    /\ Read(msg)
    /\ Becomes(UserBranch(State, msg))

ToolResultStep(input) ==
  \E msg \in input :
    /\ msg.role = "toolResult"
    /\ Read(msg)
    /\ Becomes(ToolResultBranch(State, msg))

AssistantSkipStep(input) ==
  \E msg \in input :
    /\ msg.role = "assistant"
    /\ IsSkipped(msg)
    /\ Read(msg)
    /\ Becomes(AssistantBranch(State, msg, model, normalizeToolCallId))

AssistantStep(input) ==
  \E msg \in input :
    /\ msg.role = "assistant"
    /\ ~IsSkipped(msg)
    /\ Read(msg)
    /\ Becomes(AssistantBranch(State, msg, model, normalizeToolCallId))

OtherStep(input) ==
  \E msg \in input :
    /\ msg.role \notin {"user", "toolResult", "assistant"}
    /\ Read(msg)
    /\ Becomes(OtherBranch(State, msg))

Next ==
  \/ UserStep(Messages)
  \/ ToolResultStep(Messages)
  \/ AssistantSkipStep(Messages)
  \/ AssistantStep(Messages)
  \/ OtherStep(Messages)

Spec == Init /\ [][Next]_vars

\* The conversation of SpecBlocks is one assistant message.
NextBlocks ==
  \/ messages = <<>> /\ AssistantSkipStep(BlockMessages)
  \/ messages = <<>> /\ AssistantStep(BlockMessages)

SpecBlocks == Init /\ [][NextBlocks]_vars

\* The component alone: constructed without a message, then any calls of
\* its public methods.
InitRenderer ==
  /\ messages = <<>>
  /\ model = TargetModel
  /\ normalizeToolCallId = NoCallback
  /\ result = InitState.result
  /\ toolCallIdMap = InitState.toolCallIdMap
  /\ pendingToolCalls = InitState.pendingToolCalls
  /\ existingToolResultIds = InitState.existingToolResultIds
  /\ \E hide \in BOOLEAN : ComponentIs(Constructor(hide))
  /\ NoSanitizing

UpdateContentCall ==
  \E message \in Snapshots :
    /\ ComponentBecomes(UpdateContent(Component, message))
    /\ UNCHANGED <<vars, sanitizeVars>>

FinaliseCall ==
  /\ ComponentBecomes(Finalise(Component))
  /\ UNCHANGED <<vars, sanitizeVars>>

InvalidateCall ==
  /\ ComponentBecomes(Invalidate(Component))
  /\ UNCHANGED <<vars, sanitizeVars>>

SetHideThinkingBlockCall ==
  \E hide \in BOOLEAN :
    /\ ComponentBecomes(SetHideThinkingBlock(Component, hide))
    /\ UNCHANGED <<vars, sanitizeVars>>

NextRenderer ==
  \/ UpdateContentCall
  \/ FinaliseCall
  \/ InvalidateCall
  \/ SetHideThinkingBlockCall

SpecRenderer == InitRenderer /\ [][NextRenderer]_<<vars, componentVars>>

\* One block streamed a character at a time: the characters a delta adds,
\* the block that starts empty, the snapshot of the block with one more
\* character.
DeltaCharacters == {"x", " ", "\n"}

StartedBlocks == {TextBlock(<<>>), ThinkingBlock(<<>>)}

Grown(block, ch) ==
  IF block.type = "text"
    THEN TextBlock(Append(block.text, ch))
    ELSE ThinkingBlock(Append(block.thinking, ch))

\* The first snapshot of the stream: the block has no text yet.
StartCall ==
  /\ lastMessage = NoMessage
  /\ \E block \in StartedBlocks :
       ComponentBecomes(UpdateContent(Component, Snapshot(<<block>>, "stop")))
  /\ UNCHANGED <<vars, sanitizeVars>>

\* A delta: updateContent with the snapshot grown by one character.
DeltaCall ==
  /\ lastMessage # NoMessage
  /\ Len(lastMessage.content[1][lastMessage.content[1].type]) < MaxText
  /\ \E ch \in DeltaCharacters :
       ComponentBecomes(
         UpdateContent(Component,
                       Snapshot(<<Grown(lastMessage.content[1], ch)>>,
                                "stop")))
  /\ UNCHANGED <<vars, sanitizeVars>>

NextStreaming ==
  \/ StartCall
  \/ DeltaCall

SpecStreaming == InitRenderer /\ [][NextStreaming]_<<vars, componentVars>>

\* sanitizeSurrogates alone: any text of the code units, then the function
\* applied to it and again to what it returned.
SurrogateTexts == UNION {[1..n -> CodeUnits] : n \in 0..MaxUnits}

InitSurrogates ==
  /\ messages = <<>>
  /\ model = TargetModel
  /\ normalizeToolCallId = NoCallback
  /\ result = InitState.result
  /\ toolCallIdMap = InitState.toolCallIdMap
  /\ pendingToolCalls = InitState.pendingToolCalls
  /\ existingToolResultIds = InitState.existingToolResultIds
  /\ ComponentIs(Constructor(FALSE))
  /\ sanitizeInput \in SurrogateTexts
  /\ sanitized = sanitizeInput
  /\ sanitizeCalls = 0

SanitizeSurrogatesCall ==
  /\ sanitizeCalls < MaxCalls
  /\ sanitized' = SanitizeSurrogates(sanitized)
  /\ sanitizeCalls' = sanitizeCalls + 1
  /\ UNCHANGED <<sanitizeInput, vars, componentVars>>

NextSurrogates == SanitizeSurrogatesCall

SpecSurrogates == InitSurrogates /\ [][NextSurrogates]_<<vars, componentVars, sanitizeVars>>

\* ------------------------------------------------------------------------
\* Vocabulary of the properties, read off the input and the output alone
\* ------------------------------------------------------------------------
IsSynthetic(m) ==
  /\ m.role = "toolResult"
  /\ m.isError
  /\ m.content = "No result provided"

IsAssistant(m) == m.role = "assistant"

IsErrorTurn(m) == IsAssistant(m) /\ m.stopReason \in {"error", "aborted"}

IsEmittedTurn(m) == IsAssistant(m) /\ m.stopReason \notin {"error", "aborted"}

HasTargetIdentity(m) ==
  <<m.provider, m.api, m.model>> = <<model.provider, model.api, model.id>>

\* The tool-call blocks of an assistant message, in order.
ToolCallsOf(m) == SelectSeq(m.content, LAMBDA b : b.type = "toolCall")

CallIdsOf(m) == {ToolCallsOf(m)[k].id : k \in 1..Len(ToolCallsOf(m))}

\* The input without its error/aborted turns, and the output without the
\* synthetic results: position j of the one is derived from position j of
\* the other.
Kept == SelectSeq(messages, LAMBDA m : ~IsErrorTurn(m))

Derived == SelectSeq(result, LAMBDA m : ~IsSynthetic(m))

Aligned ==
  /\ Len(Derived) = Len(Kept)
  /\ \A j \in 1..Len(Kept) : Derived[j].role = Kept[j].role

\* The position of the last input message before position n that is not a
\* tool result (0 when there is none).
LastTurnBefore(n) ==
  CHOOSE p \in 0..(n - 1) :
    /\ p = 0 \/ messages[p].role # "toolResult"
    /\ \A j \in (p + 1)..(n - 1) : messages[j].role = "toolResult"

\* The position of the last user or assistant message of the input (0 when
\* there is none).
LastTurn ==
  CHOOSE p \in 0..Len(messages) :
    /\ p = 0 \/ messages[p].role \in {"user", "assistant"}
    /\ \A j \in (p + 1)..Len(messages) :
         messages[j].role \notin {"user", "assistant"}

Indices(n) == [k \in 1..n |-> k]

\* ------------------------------------------------------------------------
\* C1
\* ------------------------------------------------------------------------
\* A callback that is absent, or leaves an id unchanged or gives it a fresh
\* non-empty id that no tool call or tool result of the input carries, and
\* gives distinct ids distinct results.
WellBehavedCallback(fn) ==
  fn = NoCallback
    \/ /\ \A i \in DOMAIN fn : fn[i] \in {i} \cup (Ids \ (InputIds \cup {""}))
       /\ \A i, j \in DOMAIN fn : fn[i] = fn[j] => i = j

\* C1 (orphan repair): when an emitted assistant message with N tool calls
\* is followed by tool results answering k < N of them and then by a user
\* message, the output ends with the emitted assistant message, the batch's
\* real tool results, exactly N-k synthetic results (isError, placeholder
\* text), one per unanswered call in call order, and the user message.
\* Stated for the well-behaved callbacks, for which the claim fails all the
\* same.
C1_OrphanRepair ==
  LET n == Len(messages)
  IN  (WellBehavedCallback(normalizeToolCallId)
         /\ n >= 2 /\ messages[n].role = "user") =>
        LET p == LastTurnBefore(n)
        IN  (p >= 1 /\ IsEmittedTurn(messages[p])) =>
              LET calls == ToolCallsOf(messages[p])
                  answered(c) ==
                    \E j \in (p + 1)..(n - 1) :
                      messages[j].toolCallId = calls[c].id
                  unanswered ==
                    SelectSeq(Indices(Len(calls)), LAMBDA c : ~answered(c))
                  u == Len(unanswered)
                  m == n - p - 1
                  a == Len(result) - u - m - 1
              IN  u >= 1 =>
                    /\ a >= 1
                    /\ IsAssistant(result[a])
                    /\ Len(ToolCallsOf(result[a])) = Len(calls)
                    /\ \A j \in 1..m :
                         /\ result[a + j].role = "toolResult"
                         /\ ~IsSynthetic(result[a + j])
                    /\ \A i \in 1..u :
                         result[a + m + i] =
                           [role |-> "toolResult",
                            toolCallId |->
                              ToolCallsOf(result[a])[unanswered[i]].id,
                            toolName |-> calls[unanswered[i]].name,
                            content |-> "No result provided",
                            isError |-> TRUE]
                    /\ result[Len(result)] = messages[n]

\* ------------------------------------------------------------------------
\* C2
\* ------------------------------------------------------------------------
\* A callback that returns its own results unchanged.
IdempotentCallback(fn) ==
  fn = NoCallback
    \/ \A i \in DOMAIN fn : fn[i] \in DOMAIN fn => fn[fn[i]] = fn[i]

\* C2 (idempotence, as claimed): a second pass over the output, with the
\* same target model and the same callback, returns the output unchanged.
C2_Idempotence ==
  TransformMessages(result, model, normalizeToolCallId) = result

\* C2 (idempotence, amended): a second pass over the output, with the same
\* target model and the same callback, returns the output unchanged,
\* provided the callback is idempotent (or absent).
C2_IdempotenceOfIdempotentCallback ==
  IdempotentCallback(normalizeToolCallId) =>
    TransformMessages(result, model, normalizeToolCallId) = result

\* The first pass remapped an id with an idempotent callback and inserted
\* a synthetic result.
C2_Witness ==
  /\ normalizeToolCallId # NoCallback
  /\ IdempotentCallback(normalizeToolCallId)
  /\ toolCallIdMap # EmptyMap
  /\ \E j \in 1..Len(result) : IsSynthetic(result[j])
  /\ \E j \in 1..Len(result) :
       result[j].role = "toolResult" /\ ~IsSynthetic(result[j])

\* ------------------------------------------------------------------------
\* C3
\* ------------------------------------------------------------------------
\* C3 (id remap consistency): when the callback changes the id of a tool
\* call of a cross-model assistant message from a to b, every tool result
\* later in the input with toolCallId a is emitted with toolCallId b.
C3_RemapConsistency ==
  /\ Aligned
  /\ \A q \in 1..Len(Kept) : \A p \in 1..(q - 1) :
       ( /\ Kept[q].role = "toolResult"
         /\ IsEmittedTurn(Kept[p])
         /\ ~HasTargetIdentity(Kept[p])
         /\ normalizeToolCallId # NoCallback
         /\ Kept[q].toolCallId \in CallIdsOf(Kept[p])
         /\ normalizeToolCallId[Kept[q].toolCallId] # Kept[q].toolCallId )
       => Derived[q].toolCallId = normalizeToolCallId[Kept[q].toolCallId]

\* ------------------------------------------------------------------------
\* C4
\* ------------------------------------------------------------------------
\* C4 (same-model passthrough, as claimed): the content of an emitted
\* same-model assistant message is identical to the input's.
C4_SameModelPassthrough ==
  /\ Aligned
  /\ \A j \in 1..Len(Kept) :
       (IsEmittedTurn(Kept[j]) /\ HasTargetIdentity(Kept[j]))
         => Derived[j].content = Kept[j].content

\* A thinking block with empty or whitespace-only text and no (non-empty)
\* thinkingSignature.
IsUnsignedEmptyThinking(b) ==
  /\ b.type = "thinking"
  /\ Trim(b.thinking) = <<>>
  /\ ~("thinkingSignature" \in DOMAIN b /\ b.thinkingSignature # "")

\* C4 (same-model passthrough, amended): the content of an emitted
\* same-model assistant message is the input's content, in order and
\* unchanged (texts, signatures, tool-call ids), minus the thinking blocks
\* of empty or whitespace-only text that carry no thinkingSignature; this
\* holds with a callback supplied too.
C4_SameModelPassthroughButEmptyThinking ==
  /\ Aligned
  /\ \A j \in 1..Len(Kept) :
       (IsEmittedTurn(Kept[j]) /\ HasTargetIdentity(Kept[j]))
         => Derived[j].content =
              SelectSeq(Kept[j].content,
                        LAMBDA b : ~IsUnsignedEmptyThinking(b))

\* A same-model message was emitted whose unsigned empty thinking block was
\* dropped and whose signed tool call has an id the supplied callback
\* would change.
C4_Witness ==
  /\ Len(messages) = 1 /\ Len(result) = 1
  /\ IsEmittedTurn(messages[1]) /\ HasTargetIdentity(messages[1])
  /\ normalizeToolCallId # NoCallback
  /\ \E k \in 1..Len(messages[1].content) :
       IsUnsignedEmptyThinking(messages[1].content[k])
  /\ \E k \in 1..Len(result[1].content) :
       LET b == result[1].content[k]
       IN  /\ b.type = "toolCall"
           /\ "thoughtSignature" \in DOMAIN b
           /\ normalizeToolCallId[b.id] # b.id

\* ------------------------------------------------------------------------
\* C5
\* ------------------------------------------------------------------------
\* C5 (error-turn exclusion): nothing in the output is derived from an
\* error/aborted assistant message (the output without synthetic results
\* is the input without those messages, role by role, and holds no
\* error/aborted message); the pending batch holds only the tool calls of
\* the last assistant message of the output, and is empty once an
\* error/aborted message was read last; every synthetic result answers a
\* tool call of the nearest emitted assistant message before it.
C5_ErrorTurnExclusion ==
  /\ Aligned
  /\ \A j \in 1..Len(result) : ~IsErrorTurn(result[j])
  /\ \A p \in 1..Len(messages) :
       (IsErrorTurn(messages[p])
          /\ \A j \in (p + 1)..Len(messages) : ~IsAssistant(messages[j]))
         => pendingToolCalls = <<>>
  /\ pendingToolCalls # <<>> =>
       \E i \in 1..Len(result) :
         /\ IsAssistant(result[i])
         /\ \A j \in (i + 1)..Len(result) : ~IsAssistant(result[j])
         /\ pendingToolCalls = ToolCallsOf(result[i])
  /\ \A j \in 1..Len(result) :
       IsSynthetic(result[j]) =>
         \E i \in 1..(j - 1) :
           /\ IsAssistant(result[i])
           /\ \A k \in (i + 1)..(j - 1) : ~IsAssistant(result[k])
           /\ result[j].toolCallId \in CallIdsOf(result[i])

\* An error/aborted message with a tool call was read, and a user message
\* after it.
C5_Witness ==
  /\ Len(messages) >= 2
  /\ IsErrorTurn(messages[Len(messages) - 1])
  /\ ToolCallsOf(messages[Len(messages) - 1]) # <<>>
  /\ messages[Len(messages)].role = "user"

\* ------------------------------------------------------------------------
\* C6
\* ------------------------------------------------------------------------
\* C6 (no empty thinking): no assistant message of the output holds a
\* thinking block whose text is empty or whitespace-only.
C6_NoEmptyThinking ==
  \A j \in 1..Len(result) :
    IsAssistant(result[j]) =>
      \A k \in 1..Len(result[j].content) :
        result[j].content[k].type = "thinking"
          => Trim(result[j].content[k].thinking) # <<>>

\* ------------------------------------------------------------------------
\* C7
\* ------------------------------------------------------------------------
\* C7 (results reference calls): when every tool result of the input
\* carries the id of a tool call of an earlier assistant message of the
\* input, every tool result of the output carries the id of a tool call of
\* an earlier assistant message of the output.
C7_ResultsReferenceCalls ==
  (\A q \in 1..Len(messages) :
     messages[q].role = "toolResult" =>
       \E p \in 1..(q - 1) :
         /\ IsAssistant(messages[p])
         /\ messages[q].toolCallId \in CallIdsOf(messages[p]))
  =>
  (\A j \in 1..Len(result) :
     result[j].role = "toolResult" =>
       \E i \in 1..(j - 1) :
         /\ IsAssistant(result[i])
         /\ result[j].toolCallId \in CallIdsOf(result[i]))

\* ------------------------------------------------------------------------
\* C8
\* ------------------------------------------------------------------------
\* The position of the first user message of the output after position p
\* (0 when there is none).
NextUserAfter(p) ==
  CHOOSE q \in {0} \cup ((p + 1)..Len(result)) :
    IF \E j \in (p + 1)..Len(result) : result[j].role = "user"
      THEN /\ q > p
           /\ result[q].role = "user"
           /\ \A j \in (p + 1)..(q - 1) : result[j].role # "user"
      ELSE q = 0

\* The tool results with id `id` strictly between positions p and q.
ResultsBetween(p, q, id) ==
  {j \in (p + 1)..(q - 1) :
     result[j].role = "toolResult" /\ result[j].toolCallId = id}

C9_NoFlushAtEndOfInput ==
  LET p == LastTurn
      m == Len(messages) - p
      a == Len(result) - m
  IN  /\ (p >= 1 /\ IsEmittedTurn(messages[p])
             /\ ToolCallsOf(messages[p]) # <<>>) =>
            /\ a >= 1
            /\ IsAssistant(result[a])
            /\ Len(ToolCallsOf(result[a])) = Len(ToolCallsOf(messages[p]))
            /\ \A j \in 1..m :
                 /\ ~IsSynthetic(result[a + j])
                 /\ result[a + j].role = messages[p + j].role
      /\ (\E j \in 1..Len(result) : IsSynthetic(result[j])) =>
           \E q \in 1..Len(messages) : \E t \in 1..(q - 1) :
             /\ IsEmittedTurn(messages[t])
             /\ ToolCallsOf(messages[t]) # <<>>
             /\ messages[q].role \in {"user", "assistant"}
             /\ \A i \in (t + 1)..(q - 1) :
                  messages[i].role \notin {"user", "assistant"}

\* The input ends after an assistant message with two tool calls and one
\* tool result, so that a call is unanswered and the batch is pending.
C9_Witness ==
  /\ Len(messages) = 2
  /\ IsEmittedTurn(messages[1])
  /\ Len(ToolCallsOf(messages[1])) = 2
  /\ messages[2].role = "toolResult"
  /\ \E id \in CallIdsOf(messages[1]) : id # messages[2].toolCallId
  /\ pendingToolCalls # <<>>

\* ------------------------------------------------------------------------
\* C10
\* ------------------------------------------------------------------------
IsEmptyThinking(b) == b.type = "thinking" /\ Trim(b.thinking) = <<>>

\* C10 (cross-model thinking): the content emitted for a cross-model
\* assistant message is the input's content without the thinking blocks of
\* empty or whitespace-only text, block by block in the same order, each
\* remaining thinking block replaced by a text block of exactly its text;
\* the output holds no thinking block and no thinkingSignature of it.
C10_CrossModelThinkingBecomesText ==
  /\ Aligned
  /\ \A j \in 1..Len(Kept) :
       (IsEmittedTurn(Kept[j]) /\ ~HasTargetIdentity(Kept[j])) =>
         LET survivors ==
               SelectSeq(Kept[j].content, LAMBDA b : ~IsEmptyThinking(b))
             out == Derived[j].content
         IN  /\ Len(out) = Len(survivors)
             /\ \A k \in 1..Len(survivors) :
                  IF survivors[k].type = "thinking"
                    THEN out[k] = [type |-> "text",
                                   text |-> survivors[k].thinking]
                    ELSE out[k].type = survivors[k].type
             /\ \A k \in 1..Len(out) :
                  /\ out[k].type # "thinking"
                  /\ "thinkingSignature" \notin DOMAIN out[k]

\* A cross-model message whose signed thinking block, of text with leading
\* white space, was emitted before a tool call.
C10_Witness ==
  /\ Len(messages) = 1 /\ Len(result) = 1
  /\ IsEmittedTurn(messages[1]) /\ ~HasTargetIdentity(messages[1])
  /\ Len(messages[1].content) = 2
  /\ messages[1].content[1].type = "thinking"
  /\ messages[1].content[1].thinking = <<" ", "x">>
  /\ "thinkingSignature" \in DOMAIN messages[1].content[1]
  /\ messages[1].content[1].thinkingSignature = "sig"
  /\ messages[1].content[2].type = "toolCall"
  /\ Len(result[1].content) = 2

\* ------------------------------------------------------------------------
\* C11
\* ------------------------------------------------------------------------
\* C11 (thoughtSignature, as claimed): the tool calls emitted for an
\* assistant message are the input's, with name and arguments unchanged;
\* those of a cross-model message carry no thoughtSignature field, those of
\* a same-model message carry the input's.
C11_NoThoughtSignatureCrossModel ==
  /\ Aligned
  /\ \A j \in 1..Len(Kept) :
       IsEmittedTurn(Kept[j]) =>
         LET in == ToolCallsOf(Kept[j])
             out == ToolCallsOf(Derived[j])
         IN  /\ Len(out) = Len(in)
             /\ \A k \in 1..Len(in) :
                  /\ out[k].name = in[k].name
                  /\ out[k].arguments = in[k].arguments
                  /\ IF HasTargetIdentity(Kept[j])
                       THEN out[k] = in[k]
                       ELSE "thoughtSignature" \notin DOMAIN out[k]

\* C11 (thoughtSignature, amended): the tool calls emitted for an assistant
\* message are the input's, with name and arguments unchanged; those of a
\* cross-model message carry no non-empty thoughtSignature (an empty one
\* stays where the input has it), those of a same-model message carry the
\* input's.
C11_NoNonEmptyThoughtSignatureCrossModel ==
  /\ Aligned
  /\ \A j \in 1..Len(Kept) :
       IsEmittedTurn(Kept[j]) =>
         LET in == ToolCallsOf(Kept[j])
             out == ToolCallsOf(Derived[j])
         IN  /\ Len(out) = Len(in)
             /\ \A k \in 1..Len(in) :
                  /\ out[k].name = in[k].name
                  /\ out[k].arguments = in[k].arguments
                  /\ IF HasTargetIdentity(Kept[j])
                       THEN out[k] = in[k]
                       ELSE "thoughtSignature" \in DOMAIN out[k] <=>
                              /\ "thoughtSignature" \in DOMAIN in[k]
                              /\ in[k].thoughtSignature = ""
                              /\ out[k].thoughtSignature = ""

\* A cross-model message whose two tool calls, one signed and one not, were
\* emitted.
C11_Witness ==
  /\ Len(messages) = 1 /\ Len(result) = 1
  /\ IsEmittedTurn(messages[1]) /\ ~HasTargetIdentity(messages[1])
  /\ Len(messages[1].content) = 2
  /\ messages[1].content[1].type = "toolCall"
  /\ "thoughtSignature" \in DOMAIN messages[1].content[1]
  /\ messages[1].content[1].thoughtSignature = "sig"
  /\ messages[1].content[2].type = "toolCall"
  /\ "thoughtSignature" \notin DOMAIN messages[1].content[2]
  /\ Len(result[1].content) = 2

\* ------------------------------------------------------------------------
\* C12
\* ------------------------------------------------------------------------
\* The tool result msg carries the id of no tool call read so far and of no
\* entry of the id map.
IsUnmatched(msg) ==
  /\ msg.role = "toolResult"
  /\ \A p \in 1..Len(messages) :
       IsAssistant(messages[p]) => msg.toolCallId \notin CallIdsOf(messages[p])
  /\ msg.toolCallId \notin DOMAIN toolCallIdMap

\* C12 (unmatched tool result): reading a tool result whose id matches no
\* earlier tool call and has no id-map entry appends that message, unchanged,
\* to the output and nothing else (no synthetic result), and leaves the
\* pending batch and the id map as they were.
C12_UnmatchedResultPassesThrough ==
  [][ (/\ Len(messages') = Len(messages) + 1
       /\ IsUnmatched(messages'[Len(messages')]))
      => /\ result' = Append(result, messages'[Len(messages')])
         /\ pendingToolCalls' = pendingToolCalls
         /\ toolCallIdMap' = toolCallIdMap ]_vars

\* An unmatched tool result was read while a batch was pending and a
\* callback that would change its id was supplied, and a user message after
\* it.
C12_Witness ==
  /\ Len(messages) = 3
  /\ IsEmittedTurn(messages[1])
  /\ CallIdsOf(messages[1]) = {"a"}
  /\ messages[2].role = "toolResult"
  /\ messages[2].toolCallId = "b"
  /\ normalizeToolCallId # NoCallback
  /\ normalizeToolCallId["b"] # "b"
  /\ messages[3].role = "user"
  /\ result[2] = messages[2]

\* ------------------------------------------------------------------------
\* C13
\* ------------------------------------------------------------------------
\* No assistant message of the input is error/aborted, and every tool call
\* is answered by a tool result with its id before the next user or
\* assistant message.
WellAnswered ==
  /\ \A p \in 1..Len(messages) : ~IsErrorTurn(messages[p])
  /\ \A p \in 1..Len(messages) :
       IsAssistant(messages[p]) =>
         \A id \in CallIdsOf(messages[p]) :
           \E q \in (p + 1)..Len(messages) :
             /\ messages[q].role = "toolResult"
             /\ messages[q].toolCallId = id
             /\ \A i \in (p + 1)..(q - 1) :
                  messages[i].role \notin {"user", "assistant"}

CountOf(seq, role) == Cardinality({j \in 1..Len(seq) : seq[j].role = role})

\* C13 (well-answered conversation): for a conversation without
\* error/aborted messages in which every tool call is answered, with or
\* without a callback, the output holds no synthetic result and has as many
\* messages, and as many user, assistant and tool-result messages, as the
\* input.
C13_NoSyntheticWhenAnswered ==
  WellAnswered =>
    /\ \A j \in 1..Len(result) : ~IsSynthetic(result[j])
    /\ Len(result) = Len(messages)
    /\ \A r \in {"user", "assistant", "toolResult"} :
         CountOf(result, r) = CountOf(messages, r)

\* ------------------------------------------------------------------------
\* C14
\* ------------------------------------------------------------------------
\* C14 (identity preserved): every assistant message of the output carries
\* the provider, api, model and stopReason of the input message it derives
\* from, and the same fields.
C14_IdentityPreserved ==
  /\ Aligned
  /\ \A j \in 1..Len(Kept) :
       IsAssistant(Kept[j]) =>
         /\ Derived[j].provider = Kept[j].provider
         /\ Derived[j].api = Kept[j].api
         /\ Derived[j].model = Kept[j].model
         /\ Derived[j].stopReason = Kept[j].stopReason
         /\ DOMAIN Derived[j] = DOMAIN Kept[j]

\* A cross-model message was emitted with its thinking block converted and
\* the id of its tool call changed.
C14_Witness ==
  /\ Len(messages) = 1 /\ Len(result) = 1
  /\ ~HasTargetIdentity(messages[1])
  /\ messages[1].model # model.id
  /\ Len(messages[1].content) = 2
  /\ messages[1].content[1].type = "thinking"
  /\ messages[1].content[2].type = "toolCall"
  /\ Len(result[1].content) = 2
  /\ result[1].content[1].type = "text"
  /\ result[1].content[2].id # messages[1].content[2].id

\* ------------------------------------------------------------------------
\* Vocabulary of the properties of the component, read off its snapshot and
\* its render units alone
\* ------------------------------------------------------------------------
Prefixes(t) == {SubSeq(t, 1, n) : n \in 0..Len(t)}

\* The longest prefix of t that ends with a newline; empty without one.
CompleteLines(t) ==
  LET ended == {p \in Prefixes(t) : p # <<>> /\ p[Len(p)] = "\n"}
  IN  IF ended = {} THEN <<>>
      ELSE CHOOSE p \in ended : \A q \in ended : Len(q) <= Len(p)

\* t without its leading and trailing blanks and newlines.
Stripped(t) ==
  LET inked == {i \in 1..Len(t) : t[i] \notin {" ", "\n"}}
  IN  IF inked = {} THEN <<>>
      ELSE SubSeq(t, CHOOSE i \in inked : \A j \in inked : i <= j,
                     CHOOSE i \in inked : \A j \in inked : j <= i)

BlockText(b) ==
  IF b.type = "text" THEN b.text
  ELSE IF b.type = "thinking" THEN b.thinking
  ELSE <<>>

\* The texts of the Markdown units of the container, in order.
MarkdownTexts(children) ==
  LET md == SelectSeq(children, LAMBDA u : u.kind = "Markdown")
  IN  [k \in 1..Len(md) |-> md[k].text]

\* What the text blocks, and the thinking blocks when expanded, of a
\* snapshot display, block by block in order, when a block of text t
\* displays Shown(t) and a block that displays nothing has no unit.
ExpectedTexts(message, hide, Shown(_)) ==
  LET blocks ==
        SelectSeq(message.content,
                  LAMBDA b : b.type = "text" \/ (b.type = "thinking" /\ ~hide))
      all == [k \in 1..Len(blocks) |-> Shown(BlockText(blocks[k]))]
  IN  SelectSeq(all, LAMBDA t : t # <<>>)

StreamedText(t) == Stripped(CompleteLines(t))

\* The kinds, texts and styles of the render units, without the identity
\* of the Markdown instances.
Units(children) ==
  [k \in 1..Len(children) |->
     IF children[k].kind = "Markdown"
       THEN [children[k] EXCEPT !.id = 0]
       ELSE children[k]]

\* ------------------------------------------------------------------------
\* C15
\* ------------------------------------------------------------------------
\* The component after updateContent(message), called now.
AfterUpdate(message) == UpdateContent(Component, message)

\* C15 (streaming atomicity, as claimed): after an updateContent while
\* streaming, the text and expanded thinking blocks display, in order,
\* exactly their trimmed text up to the last newline, and a block without a
\* newline has no unit.  For the texts "x", "x\n" and "x\ny" of one text
\* block: nothing is shown, one unit "x", and "y" withheld.
C15_NothingShownBeforeNewline ==
  streaming =>
    \A message \in Snapshots :
      LET shown == AfterUpdate(message).contentContainer
      IN  /\ MarkdownTexts(shown)
               = ExpectedTexts(message, hideThinkingBlock, StreamedText)
          /\ message.content = <<TextBlock(<<"x">>)>> => shown = <<>>
          /\ message.content = <<TextBlock(<<"x", "\n">>)>>
               => MarkdownTexts(shown) = << <<"x">> >>
          /\ message.content = <<TextBlock(<<"x", "\n", "y">>)>>
               => MarkdownTexts(shown) = << <<"x">> >>

\* C15 (streaming atomicity, amended): after an updateContent while
\* streaming, the text and expanded thinking blocks display, in order,
\* exactly their trimmed text up to the last newline; a block without a
\* newline (or whose complete lines are blank) has no text unit.  For the
\* texts "x", "x\n" and "x\ny" of one text block: no text unit (the blank
\* separators only), one unit "x", and "y" withheld.
C15_StreamingAtomicity ==
  streaming =>
    \A message \in Snapshots :
      LET shown == AfterUpdate(message).contentContainer
      IN  /\ MarkdownTexts(shown)
               = ExpectedTexts(message, hideThinkingBlock, StreamedText)
          /\ message.content = <<TextBlock(<<"x">>)>>
               => /\ shown # <<>>
                  /\ \A k \in 1..Len(shown) : shown[k].kind = "Spacer"
          /\ message.content = <<TextBlock(<<"x", "\n">>)>>
               => MarkdownTexts(shown) = << <<"x">> >>
          /\ message.content = <<TextBlock(<<"x", "\n", "y">>)>>
               => MarkdownTexts(shown) = << <<"x">> >>

\* While streaming, a snapshot whose thinking block has a complete line and
\* whose text block has a complete line and a withheld partial one is
\* displayed.
C15_Witness ==
  /\ streaming /\ ~hideThinkingBlock
  /\ lastMessage # NoMessage
  /\ lastMessage.content =
       <<ThinkingBlock(<<"x", "\n">>), TextBlock(<<"x", "\n">>)>>
  /\ MarkdownTexts(contentContainer) = << <<"x">>, <<"x">> >>

\* ------------------------------------------------------------------------
\* C16
\* ------------------------------------------------------------------------
\* The component c displays the full trimmed text of the text blocks, and of
\* the thinking blocks when expanded, of its snapshot.
DisplaysInFull(c) ==
  c.lastMessage # NoMessage =>
    MarkdownTexts(c.contentContainer)
      = ExpectedTexts(c.lastMessage, c.hideThinkingBlock, Stripped)

\* C16 (finalize flush): after finalise, and after every updateContent or
\* invalidate once finalised, the text and expanded thinking blocks display,
\* in order, exactly their full trimmed text, a trailing line without a
\* newline included; blocks of blank text have no unit.
C16_FinaliseFlush ==
  /\ DisplaysInFull(Finalise(Component))
  /\ ~streaming =>
       /\ DisplaysInFull(Invalidate(Component))
       /\ \A message \in Snapshots : DisplaysInFull(AfterUpdate(message))

\* Finalised, the text with an unterminated trailing line is displayed in
\* full.
C16_Witness ==
  /\ ~streaming
  /\ lastMessage # NoMessage
  /\ lastMessage.content = <<TextBlock(<<"x", "\n", "y">>)>>
  /\ MarkdownTexts(contentContainer) = << <<"x", "\n", "y">> >>

\* ------------------------------------------------------------------------
\* C17
\* ------------------------------------------------------------------------
\* C17 (streaming flag): the flag is true after construction, false after
\* finalise, and once false no call makes it true again.
C17_StreamingNeverResumes ==
  /\ streaming = TRUE
  /\ [][ /\ ~streaming => ~streaming'
         /\ streaming' => ~FinaliseCall
       ]_componentVars

\* Finalised, a snapshot received since is displayed.
C17_Witness ==
  /\ ~streaming
  /\ lastMessage # NoMessage
  /\ markdownPool # EmptyMap
  /\ Len(contentContainer) >= 2

\* ------------------------------------------------------------------------
\* C18
\* ------------------------------------------------------------------------
\* The pool of component c holds every entry of the current pool, with the
\* same instance.
KeepsPool(c) ==
  \A key \in DOMAIN markdownPool :
    /\ key \in DOMAIN c.markdownPool
    /\ c.markdownPool[key].id = markdownPool[key].id

\* C18 (cache stability): updateContent twice in a row with the same
\* snapshot yields the same render units and reuses every pooled instance
\* (the second call changes nothing); and a call that does not clear the
\* pool (updateContent, finalise) keeps every pool entry, with its
\* instance, as it was.
C18_PooledInstancesReused ==
  /\ KeepsPool(Finalise(Component))
  /\ \A message \in Snapshots :
       LET once == AfterUpdate(message)
       IN  /\ KeepsPool(once)
           /\ UpdateContent(once, message) = once

\* Two pooled instances are displayed, one of them created while an
\* instance of its key, since dropped from the pool, was still displayed.
C18_Witness ==
  /\ Cardinality(DOMAIN markdownPool) = 2
  /\ Cardinality(ContainerIds(contentContainer)) = 2
  /\ ContainerIds(contentContainer) = PoolIds(markdownPool)
  /\ \E key \in DOMAIN markdownPool : markdownPool[key].id = <<key, 1>>

\* ------------------------------------------------------------------------
\* C19
\* ------------------------------------------------------------------------
\* C19 (streaming equals non-streaming): after finalise, the render units
\* (kinds, texts, styles) are those of a component constructed afresh with
\* the same collapsed flag, finalised, and then given the last snapshot.
C19_SameAsNonStreaming ==
  lastMessage # NoMessage =>
    Units(Finalise(Component).contentContainer)
      = Units(UpdateContent(Finalise(Constructor(hideThinkingBlock)),
                            lastMessage).contentContainer)

\* Finalised after snapshots were streamed (the pool holds an instance that
\* the last snapshot does not display): a thinking block and a text block
\* with a trailing partial line are displayed in full.
C19_Witness ==
  /\ ~streaming /\ ~hideThinkingBlock
  /\ lastMessage # NoMessage
  /\ lastMessage.content =
       <<ThinkingBlock(<<"x">>), TextBlock(<<"x">>)>>
  /\ MarkdownTexts(contentContainer) = << <<"x">>, <<"x">> >>
  /\ Cardinality(DOMAIN markdownPool) = 3

\* ------------------------------------------------------------------------
\* C20
\* ------------------------------------------------------------------------
\* The container ends with the notice: a blank separator and one text unit
\* in the error style.
EndsWithNotice(children) ==
  /\ Len(children) >= 2
  /\ children[Len(children) - 1].kind = "Spacer"
  /\ children[Len(children)].kind = "Text"
  /\ children[Len(children)].style = "error"

NoticeCount(children) ==
  Cardinality({k \in 1..Len(children) :
                 children[k].kind = "Text" /\ children[k].style = "error"})

\* C20 (error/abort notice): once a snapshot is received, the render units
\* end with the notice (and hold exactly one) iff the snapshot's stopReason
\* is error or aborted and none of its blocks is a tool call; otherwise
\* they hold no notice.
C20_NoticeIffEndedWithoutToolCalls ==
  lastMessage # NoMessage =>
    LET ended == lastMessage.stopReason \in {"error", "aborted"}
        calls == \E k \in 1..Len(lastMessage.content) :
                   lastMessage.content[k].type = "toolCall"
    IN  IF ended /\ ~calls
          THEN EndsWithNotice(contentContainer)
                 /\ NoticeCount(contentContainer) = 1
          ELSE NoticeCount(contentContainer) = 0

\* An aborted snapshot with a text block and no tool call is displayed with
\* its notice after the text.
C20_Witness ==
  /\ lastMessage # NoMessage
  /\ lastMessage.stopReason = "aborted"
  /\ Len(lastMessage.content) = 1
  /\ lastMessage.content[1].type = "text"
  /\ Len(contentContainer) = 4
  /\ contentContainer[2].kind = "Markdown"
  /\ EndsWithNotice(contentContainer)

\* ------------------------------------------------------------------------
\* C21
\* ------------------------------------------------------------------------
\* The text of the notice the container ends with.
NoticeText(children) == children[Len(children)].text

\* A snapshot that ended as `stopReason` and holds no tool call, so that its
\* notice is displayed.
EndedAs(message, stopReason) ==
  /\ message # NoMessage
  /\ message.stopReason = stopReason
  /\ \A k \in 1..Len(message.content) : message.content[k].type # "toolCall"

HasErrorText(message) == "errorMessage" \in DOMAIN message

\* The notice of a snapshot that ended in an error: "Error: " followed by
\* the error text, or by "Unknown error" when that is absent or empty.
ErrorNoticeIsRight ==
  EndedAs(lastMessage, "error") =>
    NoticeText(contentContainer) =
      IF HasErrorText(lastMessage) /\ lastMessage.errorMessage # ""
        THEN <<"Error: ", lastMessage.errorMessage>>
        ELSE <<"Error: ", "Unknown error">>

\* C21 (notice text, as claimed): the notice of an aborted snapshot shows
\* the snapshot's own error text unless that is absent or is "Request was
\* aborted", and then "Operation aborted"; the notice of an errored
\* snapshot shows "Error: " and the error text, or "Unknown error" when
\* that is absent or empty.
C21_AbortNoticeOwnTextUnlessAbsentOrDefault ==
  /\ ErrorNoticeIsRight
  /\ EndedAs(lastMessage, "aborted") =>
       NoticeText(contentContainer) =
         IF ~HasErrorText(lastMessage)
              \/ lastMessage.errorMessage = "Request was aborted"
           THEN <<"Operation aborted">>
           ELSE <<lastMessage.errorMessage>>

\* C21 (notice text, amended): the notice of an aborted snapshot shows the
\* snapshot's own error text unless that is absent, empty or "Request was
\* aborted", and then "Operation aborted"; the notice of an errored
\* snapshot shows "Error: " and the error text, or "Unknown error" when
\* that is absent or empty.
C21_NoticeText ==
  /\ ErrorNoticeIsRight
  /\ EndedAs(lastMessage, "aborted") =>
       NoticeText(contentContainer) =
         IF \/ ~HasErrorText(lastMessage)
            \/ lastMessage.errorMessage = ""
            \/ lastMessage.errorMessage = "Request was aborted"
           THEN <<"Operation aborted">>
           ELSE <<lastMessage.errorMessage>>

\* An aborted snapshot with an error text of its own is displayed with that
\* text as its notice.
C21_Witness ==
  /\ EndedAs(lastMessage, "aborted")
  /\ HasErrorText(lastMessage)
  /\ lastMessage.errorMessage = "boom"
  /\ NoticeText(contentContainer) = <<"boom">>

\* ------------------------------------------------------------------------
\* C22
\* ------------------------------------------------------------------------
\* The render units before the notice (the notice is its blank separator and
\* its text unit).
Body(children) ==
  IF EndsWithNotice(children)
    THEN SubSeq(children, 1, Len(children) - 2)
    ELSE children

HasLeadingSeparator(children) ==
  Body(children) # <<>> /\ Body(children)[1].kind = "Spacer"

\* A text or thinking block with non-whitespace text.
IsNonEmptyBlock(b) ==
  b.type \in {"text", "thinking"} /\ Stripped(BlockText(b)) # <<>>

\* C22 (leading separator): once a snapshot is received, the render units
\* before the notice start with a blank separator iff some block of the
\* snapshot is a text or thinking block with non-whitespace text; without
\* such a block there is no unit before the notice at all.
C22_LeadingSeparatorIffVisibleContent ==
  lastMessage # NoMessage =>
    LET visible == \E k \in 1..Len(lastMessage.content) :
                     IsNonEmptyBlock(lastMessage.content[k])
    IN  /\ HasLeadingSeparator(contentContainer) <=> visible
        /\ ~visible => Body(contentContainer) = <<>>

\* A snapshot of a tool call and a text block is displayed: the separator
\* leads, the text follows.
C22_Witness ==
  /\ lastMessage # NoMessage
  /\ Len(lastMessage.content) = 2
  /\ lastMessage.content[1].type = "toolCall"
  /\ lastMessage.content[2].type = "text"
  /\ Len(contentContainer) = 2
  /\ contentContainer[1].kind = "Spacer"
  /\ contentContainer[2].kind = "Markdown"

\* ------------------------------------------------------------------------
\* C23
\* ------------------------------------------------------------------------
\* The component after one of the calls that rebuild: any updateContent, and
\* finalise or invalidate once a snapshot is received.
Rebuilt ==
  {AfterUpdate(message) : message \in Snapshots}
    \cup (IF lastMessage # NoMessage
            THEN {Finalise(Component), Invalidate(Component)}
            ELSE {})

\* The kinds of the render units, in order.
Kinds(children) == [k \in 1..Len(children) |-> children[k].kind]

\* Some block after the k-th is a text or thinking block with non-whitespace
\* text.
NonEmptyBlockAfter(content, k) ==
  \E j \in (k + 1)..Len(content) : IsNonEmptyBlock(content[j])

\* The kinds of the units of the k-th block, for a component c: the unit
\* that displays it, where it displays something, and after that a blank
\* separator iff the block is a non-empty thinking block and a non-empty
\* text or thinking block comes later.
BlockKinds(c, k) ==
  LET b == c.lastMessage.content[k]
      shown == IF c.streaming THEN StreamedText(BlockText(b))
               ELSE Stripped(BlockText(b))
      unit ==
        IF ~IsNonEmptyBlock(b) THEN <<>>
        ELSE IF b.type = "thinking" /\ c.hideThinkingBlock THEN <<"Text">>
        ELSE IF shown # <<>> THEN <<"Markdown">>
        ELSE <<>>
      separator ==
        IF /\ IsNonEmptyBlock(b)
           /\ b.type = "thinking"
           /\ NonEmptyBlockAfter(c.lastMessage.content, k)
          THEN <<"Spacer">>
          ELSE <<>>
  IN  unit \o separator

RECURSIVE BlocksKinds(_, _)
BlocksKinds(c, k) ==
  IF k > Len(c.lastMessage.content) THEN <<>>
  ELSE BlockKinds(c, k) \o BlocksKinds(c, k + 1)

\* The blank separators among the units after the leading one and before
\* the notice.
SeparatorsWithin(children) ==
  Cardinality({k \in 2..Len(Body(children)) :
                 Body(children)[k].kind = "Spacer"})

\* C23 (separator after a thinking block): after every rebuild, the units
\* between the leading separator and the notice are, block by block, the
\* unit of the block followed by a blank separator iff the block is a
\* non-empty thinking block, collapsed or expanded, and a later block is a
\* non-empty text or thinking block; no separator follows a thinking block
\* that only tool calls, empty blocks or the notice come after.
C23_SeparatorAfterThinkingIffVisibleLater ==
  \A c \in Rebuilt :
    LET content == c.lastMessage.content
        units == Body(c.contentContainer)
        thinkingBeforeVisible ==
          {k \in 1..Len(content) :
             /\ IsNonEmptyBlock(content[k])
             /\ content[k].type = "thinking"
             /\ NonEmptyBlockAfter(content, k)}
    IN  /\ SeparatorsWithin(c.contentContainer)
             = Cardinality(thinkingBeforeVisible)
        /\ HasLeadingSeparator(c.contentContainer)
             => Kinds(Tail(units)) = BlocksKinds(c, 1)

\* A snapshot of a thinking block, a tool call and a text block is
\* displayed expanded: a separator follows the unit of the thinking block,
\* the text comes after it.
C23_Witness ==
  /\ lastMessage # NoMessage
  /\ ~hideThinkingBlock
  /\ Len(lastMessage.content) = 3
  /\ lastMessage.content[1].type = "thinking"
  /\ lastMessage.content[2].type = "toolCall"
  /\ lastMessage.content[3] = TextBlock(<<"x", "\n">>)
  /\ Kinds(contentContainer) = <<"Spacer", "Markdown", "Spacer", "Markdown">>

\* ------------------------------------------------------------------------
\* C24
\* ------------------------------------------------------------------------
\* The kinds and texts of the render units.
KindsAndTexts(children) ==
  [k \in 1..Len(children) |->
     IF children[k].kind = "Spacer" THEN <<"Spacer">>
     ELSE <<children[k].kind, children[k].text>>]

\* The render units of a component constructed afresh with the flags of c
\* and given the snapshot of c.
UnitsOfState(c) ==
  LET constructed == Constructor(c.hideThinkingBlock)
      fresh == IF c.streaming THEN constructed ELSE Finalise(constructed)
  IN  UpdateContent(fresh, c.lastMessage).contentContainer

\* invalidate leaves the flags and the snapshot alone, and no instance of
\* the pool before the call is in the pool, or displayed, after it; without
\* a snapshot it leaves the container without a unit.
InvalidateRenews(after) ==
  /\ after.streaming = streaming
  /\ after.hideThinkingBlock = hideThinkingBlock
  /\ after.lastMessage = lastMessage
  /\ PoolIds(after.markdownPool) \cap PoolIds(markdownPool) = {}
  /\ ContainerIds(after.contentContainer) \cap PoolIds(markdownPool) = {}
  /\ ContainerIds(after.contentContainer) = PoolIds(after.markdownPool)
  /\ lastMessage = NoMessage =>
       after.markdownPool = EmptyMap /\ after.contentContainer = <<>>

\* C24 (invalidate, as claimed): invalidate empties the pool and rebuilds
\* from the last snapshot, leaves the streaming flag, the snapshot and the
\* collapsed flag unchanged, and the kinds and texts of the rebuilt units
\* equal those before the call; without a snapshot there is no unit.
C24_InvalidateKeepsUnits ==
  LET after == Invalidate(Component)
  IN  /\ InvalidateRenews(after)
      /\ KindsAndTexts(after.contentContainer)
           = KindsAndTexts(contentContainer)

\* C24 (invalidate, amended): invalidate empties the pool and rebuilds from
\* the last snapshot, leaves the streaming flag, the snapshot and the
\* collapsed flag unchanged, and the rebuilt units are those the snapshot
\* has under the current streaming and collapsed flags (line buffering
\* applies while streaming): the units before the call where these were up
\* to date, so that a second invalidate changes none, and the units of the
\* new mode after a change of the collapsed flag; without a snapshot there
\* is no unit.
C24_InvalidateRebuildsFromState ==
  LET after == Invalidate(Component)
      again == Invalidate(after)
  IN  /\ InvalidateRenews(after)
      /\ lastMessage # NoMessage =>
           /\ Units(after.contentContainer) = Units(UnitsOfState(Component))
           /\ Units(contentContainer) = Units(UnitsOfState(Component))
                => KindsAndTexts(after.contentContainer)
                     = KindsAndTexts(contentContainer)
           /\ KindsAndTexts(again.contentContainer)
                = KindsAndTexts(after.contentContainer)

\* A thinking block is displayed by an instance created anew while the
\* instance that displayed it before was dropped from the pool: the pool
\* holds the new one only.
C24_Witness ==
  /\ ~hideThinkingBlock /\ streaming
  /\ lastMessage # NoMessage
  /\ lastMessage.content = <<ThinkingBlock(<<"x", "\n">>)>>
  /\ Kinds(contentContainer) = <<"Spacer", "Markdown">>
  /\ contentContainer[2].id = <<<<"thinking", 0>>, 1>>
  /\ PoolIds(markdownPool) = {contentContainer[2].id}

\* ------------------------------------------------------------------------
\* C25
\* ------------------------------------------------------------------------
\* C25 (collapsed flag and pool): setHideThinkingBlock with the other value
\* of the flag sets the flag and empties the pool (the snapshot, the
\* streaming flag and the render units stay); with the current value it
\* changes nothing.  So no instance pooled for a thinking block while
\* expanded is in the pool while collapsed, and after a change and a
\* rebuild no instance pooled before the change is displayed.
C25_ToggleEmptiesPool ==
  LET toggled == SetHideThinkingBlock(Component, ~hideThinkingBlock)
  IN  /\ SetHideThinkingBlock(Component, hideThinkingBlock) = Component
      /\ toggled = [Component EXCEPT
                      !.hideThinkingBlock = ~hideThinkingBlock,
                      !.markdownPool = EmptyMap]
      /\ hideThinkingBlock =>
           \A key \in DOMAIN markdownPool : key[1] # "thinking"
      /\ lastMessage # NoMessage =>
           ContainerIds(UpdateContent(toggled, lastMessage).contentContainer)
             \cap PoolIds(markdownPool) = {}

\* Collapsed while an expanded thinking block was displayed: the pool is
\* empty, the units are still those of the expanded mode.
C25_Witness ==
  /\ hideThinkingBlock
  /\ markdownPool = EmptyMap
  /\ \E k \in 1..Len(contentContainer) :
       /\ contentContainer[k].kind = "Markdown"
       /\ contentContainer[k].style = "thinkingText"

\* ------------------------------------------------------------------------
\* C26
\* ------------------------------------------------------------------------
\* The position in the output of the last assistant message emitted (0 when
\* there is none).
LastEmitted(out) ==
  CHOOSE p \in 0..Len(out) :
    /\ p = 0 \/ IsAssistant(out[p])
    /\ \A j \in (p + 1)..Len(out) : ~IsAssistant(out[j])

\* The tool calls of the last assistant message emitted that no tool result
\* after it in the output carries the id of, in block order.
UnansweredCalls(out) ==
  LET p == LastEmitted(out)
      answered == {out[j].toolCallId :
                     j \in {i \in (p + 1)..Len(out) :
                              out[i].role = "toolResult"}}
  IN  IF p = 0 THEN <<>>
      ELSE SelectSeq(ToolCallsOf(out[p]), LAMBDA tc : tc.id \notin answered)

\* out continues with one synthetic result for each call of `calls`, in
\* order, from position n + 1 on.
SyntheticsAt(out, n, calls) ==
  /\ Len(out) >= n + Len(calls)
  /\ \A k \in 1..Len(calls) :
       /\ IsSynthetic(out[n + k])
       /\ out[n + k].toolCallId = calls[k].id
       /\ out[n + k].toolName = calls[k].name

\* C26 (flush at an assistant message): reading an assistant message
\* appends to the output one synthetic result for each unanswered tool call
\* of the last assistant message emitted, then the message derived from
\* the one read, or nothing more when that is error/aborted; and the
\* pending batch is then the tool calls of the message just emitted, or
\* empty.
C26_FlushBeforeAssistant ==
  [][ (/\ Len(messages') = Len(messages) + 1
       /\ IsAssistant(messages'[Len(messages')]))
      => LET msg == messages'[Len(messages')]
             n == Len(result)
             unanswered == UnansweredCalls(result)
         IN  /\ SubSeq(result', 1, n) = result
             /\ SyntheticsAt(result', n, unanswered)
             /\ IF IsErrorTurn(msg)
                  THEN /\ Len(result') = n + Len(unanswered)
                       /\ pendingToolCalls' = <<>>
                  ELSE /\ Len(result') = n + Len(unanswered) + 1
                       /\ IsAssistant(result'[Len(result')])
                       /\ pendingToolCalls'
                            = ToolCallsOf(result'[Len(result')]) ]_vars

\* An aborted assistant message was read while one of the two calls of the
\* assistant message before it was unanswered: the synthetic result for
\* that call is the last message of the output.
C26_Witness ==
  /\ Len(messages) = 3
  /\ IsEmittedTurn(messages[1])
  /\ CallIdsOf(messages[1]) = {"a", "b"}
  /\ messages[2].role = "toolResult"
  /\ messages[2].toolCallId = "a"
  /\ IsErrorTurn(messages[3])
  /\ Len(result) = 3
  /\ IsSynthetic(result[3])
  /\ result[3].toolCallId # result[2].toolCallId
  /\ pendingToolCalls = <<>>

\* ------------------------------------------------------------------------
\* C27
\* ------------------------------------------------------------------------
\* The positions of the output after the assistant message at p and before
\* the next assistant message.
SegmentAfter(out, p) ==
  {j \in (p + 1)..Len(out) : \A i \in (p + 1)..j : ~IsAssistant(out[i])}

\* C27 (one batch at a time): the pending batch is empty or is the tool
\* calls of the last assistant message emitted, neither more nor less; it
\* is empty after a user message and after an error/aborted assistant
\* message, and after an emitted assistant message it is that message's
\* tool calls; and behind an emitted assistant message, up to the next one,
\* the output holds for every id at most as many synthetic results as the
\* message has tool calls of that id.
C27_SingleBatch ==
  /\ \/ pendingToolCalls = <<>>
     \/ /\ LastEmitted(result) # 0
        /\ pendingToolCalls = ToolCallsOf(result[LastEmitted(result)])
  /\ messages # <<>> =>
       LET last == messages[Len(messages)]
       IN  /\ last.role = "user" \/ IsErrorTurn(last)
                => pendingToolCalls = <<>>
           /\ IsEmittedTurn(last)
                => /\ LastEmitted(result) = Len(result)
                   /\ pendingToolCalls = ToolCallsOf(result[Len(result)])
  /\ \A p \in 1..Len(result) :
       IsAssistant(result[p]) =>
         \A id \in Ids :
           Cardinality({j \in SegmentAfter(result, p) :
                          IsSynthetic(result[j]) /\ result[j].toolCallId = id})
             <= Cardinality({k \in 1..Len(ToolCallsOf(result[p])) :
                               ToolCallsOf(result[p])[k].id = id})

\* Two assistant messages with tool calls were read one after the other:
\* the call of the first got its synthetic result, and the batch is the
\* call of the second.
C27_Witness ==
  /\ Len(messages) = 2
  /\ IsEmittedTurn(messages[1]) /\ IsEmittedTurn(messages[2])
  /\ Len(result) = 3
  /\ IsSynthetic(result[2])
  /\ Len(pendingToolCalls) = 1
  /\ pendingToolCalls = ToolCallsOf(result[3])
  /\ pendingToolCalls[1].id # result[2].toolCallId

\* ------------------------------------------------------------------------
\* C28
\* ------------------------------------------------------------------------
IsPrefixOf(s, t) == Len(s) <= Len(t) /\ SubSeq(t, 1, Len(s)) = s

\* C28 (single pass, no lookahead): at every point the output is what
\* transformMessages returns for the messages read so far, and reading one
\* more message leaves that output as a prefix of the new one.  So the
\* output for a sequence is a prefix of the output for every extension of
\* it: an appended message changes nothing of what was emitted before.
C28_OutputOfPrefixIsPrefix ==
  /\ [](result = TransformMessages(messages, model, normalizeToolCallId))
  /\ [][IsPrefixOf(result, result')]_vars

\* A tool result with the id of a call arrives after the user message that
\* made the call an orphan: the synthetic result emitted at the user
\* message stays where it was.
C28_Witness ==
  /\ Len(messages) = 3
  /\ IsEmittedTurn(messages[1])
  /\ messages[2].role = "user"
  /\ messages[3].role = "toolResult"
  /\ messages[3].toolCallId \in CallIdsOf(messages[1])
  /\ Len(result) >= 4
  /\ IsSynthetic(result[2])
  /\ result[2].toolCallId = result[Len(result)].toolCallId

\* ------------------------------------------------------------------------
\* C29
\* ------------------------------------------------------------------------
\* The component c displays its aborted snapshot as a cancelled one: the
\* full trimmed text of every non-empty text block and expanded thinking
\* block, and the notice at the end unless a tool call suppresses it.
DisplaysCancelled(c) ==
  /\ DisplaysInFull(c)
  /\ EndedAs(c.lastMessage, "aborted") => EndsWithNotice(c.contentContainer)

\* C29 (cancellation reaction): after an updateContent that gives an
\* aborted snapshot, and after a finalise that follows it, the render units
\* show the full trimmed text of every non-empty block, an unterminated
\* trailing line included, and the abort notice.
C29_AbortedShownInFull ==
  \A message \in Snapshots :
    message.stopReason = "aborted" =>
      /\ DisplaysCancelled(AfterUpdate(message))
      /\ DisplaysCancelled(Finalise(AfterUpdate(message)))

\* ------------------------------------------------------------------------
\* C30
\* ------------------------------------------------------------------------
Newlines(t) == Cardinality({i \in 1..Len(t) : t[i] = "\n"})

\* The texts displayed for the streamed block when its text is t: those a
\* component constructed with the current collapsed flag displays for it.
ShownFor(t) ==
  LET block == IF lastMessage.content[1].type = "text"
                 THEN TextBlock(t) ELSE ThinkingBlock(t)
  IN  MarkdownTexts(
        UpdateContent(Constructor(hideThinkingBlock),
                      Snapshot(<<block>>, "stop")).contentContainer)

\* The deltas of the stream of t at which the displayed text changed.
DisplayChanges(t) ==
  {n \in 1..Len(t) :
     ShownFor(SubSeq(t, 1, n)) # ShownFor(SubSeq(t, 1, n - 1))}

\* t is made of lines that each hold a character other than white space
\* and end with a newline.
NonBlankLinesOnly(t) ==
  /\ t # <<>>
  /\ t[Len(t)] = "\n"
  /\ \A i \in 1..Len(t) :
       t[i] = "\n" => i > 1 /\ t[i - 1] \notin {" ", "\n"}

\* C30 (display changes and newlines): while the text of a block grows one
\* character at a time, a delta changes the displayed text only if the
\* character it adds is a newline; so the displayed text has changed at
\* most as often as newlines were received, and exactly as often (three
\* times for three lines) when the block is displayed as text and every
\* line ends with a newline straight after a character that is not white
\* space.
C30_ChangesOnlyOnNewline ==
  /\ [](lastMessage # NoMessage =>
          LET t == BlockText(lastMessage.content[1])
              asText == lastMessage.content[1].type = "text"
                          \/ ~hideThinkingBlock
          IN  /\ MarkdownTexts(contentContainer) = ShownFor(t)
              /\ \A n \in DisplayChanges(t) : t[n] = "\n"
              /\ Cardinality(DisplayChanges(t)) <= Newlines(t)
              /\ asText /\ NonBlankLinesOnly(t)
                   => Cardinality(DisplayChanges(t)) = Newlines(t)
              /\ asText /\ t = <<"x", "\n", "x", "\n", "x", "\n">>
                   => Cardinality(DisplayChanges(t)) = 3)
  /\ [][ (/\ lastMessage # NoMessage
          /\ MarkdownTexts(contentContainer')
               # MarkdownTexts(contentContainer))
         => LET t == BlockText(lastMessage'.content[1])
            IN  t # <<>> /\ t[Len(t)] = "\n" ]_componentVars

\* Three lines were streamed a character at a time: the three of them are
\* displayed.
C30_Witness ==
  /\ streaming
  /\ lastMessage # NoMessage
  /\ lastMessage.content = <<TextBlock(<<"x", "\n", "x", "\n", "x", "\n">>)>>
  /\ MarkdownTexts(contentContainer) = << <<"x", "\n", "x", "\n", "x">> >>

\* ------------------------------------------------------------------------
\* C31
\* ------------------------------------------------------------------------
\* C31 (bufferToCompleteLines): for the text t of the streamed block,
\* bufferToCompleteLines(t) is the longest prefix of t that ends with a
\* newline, and the empty text when t holds no newline (the empty t
\* included); it is a prefix of t, and the function applied to it returns
\* it unchanged.  It is what the block displays, trimmed, while streaming.
C31_LongestNewlineTerminatedPrefix ==
  lastMessage # NoMessage =>
    LET t == BlockText(lastMessage.content[1])
        buffered == BufferToCompleteLines(t)
    IN  /\ buffered \in Prefixes(t)
        /\ buffered = <<>> \/ buffered[Len(buffered)] = "\n"
        /\ \A p \in Prefixes(t) :
             p # <<>> /\ p[Len(p)] = "\n" => Len(p) <= Len(buffered)
        /\ Newlines(t) = 0 => buffered = <<>>
        /\ BufferToCompleteLines(buffered) = buffered
        /\ lastMessage.content[1].type = "text" /\ Stripped(buffered) # <<>>
             => MarkdownTexts(contentContainer) = <<Stripped(buffered)>>

\* A text of two complete lines and a partial third was streamed: the two
\* complete lines are displayed.
C31_Witness ==
  /\ lastMessage # NoMessage
  /\ lastMessage.content = <<TextBlock(<<"x", "\n", "x", "\n", "x">>)>>
  /\ BufferToCompleteLines(lastMessage.content[1].text)
       = <<"x", "\n", "x", "\n">>
  /\ MarkdownTexts(contentContainer) = << <<"x", "\n", "x">> >>

\* ------------------------------------------------------------------------
\* C32
\* ------------------------------------------------------------------------
\* The content units among the render units before the notice, each as the
\* block it displays: a Markdown unit as the kind and index of the block its
\* instance was created for and its text, a placeholder as such.
ContentUnits(children) ==
  LET units == SelectSeq(Body(children), LAMBDA u : u.kind # "Spacer")
  IN  [k \in 1..Len(units) |->
         IF units[k].kind = "Markdown"
           THEN <<units[k].id[1][1], units[k].id[1][2], units[k].text>>
           ELSE <<"placeholder">>]

\* The content unit of the k-th block for a component c, if it has one: none
\* for a tool call and for a block of blank text, the placeholder for a
\* collapsed thinking block, else the text the block displays, if any.
ContentUnitOf(c, k) ==
  LET b == c.lastMessage.content[k]
      shown == IF c.streaming THEN StreamedText(BlockText(b))
               ELSE Stripped(BlockText(b))
  IN  IF ~IsNonEmptyBlock(b) THEN <<>>
      ELSE IF b.type = "thinking" /\ c.hideThinkingBlock
        THEN << <<"placeholder">> >>
      ELSE IF shown # <<>> THEN << <<b.type, k - 1, shown>> >>
      ELSE <<>>

RECURSIVE ContentUnitsFrom(_, _)
ContentUnitsFrom(c, k) ==
  IF k > Len(c.lastMessage.content) THEN <<>>
  ELSE ContentUnitOf(c, k) \o ContentUnitsFrom(c, k + 1)

\* C32 (order, one unit per block): after every rebuild the content units
\* are, in the order of the blocks, at most one unit for each block: none
\* for a tool call and for a text or thinking block of blank text, so that
\* a snapshot without blocks, or with such blocks only, yields no content
\* unit; and finalise and invalidate without a snapshot yield no unit.
C32_ContentUnitsInBlockOrder ==
  /\ \A c \in Rebuilt :
       /\ ContentUnits(c.contentContainer) = ContentUnitsFrom(c, 1)
       /\ Len(ContentUnits(c.contentContainer)) <= Len(c.lastMessage.content)
  /\ lastMessage = NoMessage =>
       /\ Finalise(Component).contentContainer = <<>>
       /\ Invalidate(Component).contentContainer = <<>>

\* Collapsed, a snapshot of a thinking block, a tool call and a text block
\* is displayed: the placeholder, then the text of the third block.
C32_Witness ==
  /\ hideThinkingBlock
  /\ lastMessage # NoMessage
  /\ Len(lastMessage.content) = 3
  /\ lastMessage.content[2].type = "toolCall"
  /\ ContentUnits(contentContainer)
       = << <<"placeholder">>, <<"text", 2, <<"x">> >> >>

\* ------------------------------------------------------------------------
\* C33: sanitizeSurrogates
\* ------------------------------------------------------------------------
\* The positions of a text whose code unit is a surrogate, and those that
\* belong to a pair: a high surrogate and the low surrogate right after it.
Surrogates(t) == {i \in 1..Len(t) : t[i] \in 55296..57343}

PairStarts(t) ==
  {i \in 1..(Len(t) - 1) : t[i] \in 55296..56319 /\ t[i + 1] \in 56320..57343}

Paired(t) == PairStarts(t) \cup {i + 1 : i \in PairStarts(t)}

Unpaired(t) == Surrogates(t) \ Paired(t)

\* The code units of t at the positions of S up to n, in their order.
RECURSIVE Restricted(_, _, _)
Restricted(t, S, n) ==
  IF n = 0 THEN <<>>
  ELSE IF n \in S THEN Append(Restricted(t, S, n - 1), t[n])
                  ELSE Restricted(t, S, n - 1)

\* C33: once sanitizeSurrogates was applied, the text is the input without
\* its unpaired surrogates and with every other code unit in its place in
\* the order; an input without surrogates is returned as it is; the result
\* has no unpaired surrogate, and applying the function to it again returns
\* it unchanged.
C33_RemovesExactlyUnpairedSurrogates ==
  sanitizeCalls >= 1 =>
    /\ sanitized =
         Restricted(sanitizeInput,
                    (1..Len(sanitizeInput)) \ Unpaired(sanitizeInput),
                    Len(sanitizeInput))
    /\ Surrogates(sanitizeInput) = {} => sanitized = sanitizeInput
    /\ Unpaired(sanitized) = {}
    /\ SanitizeSurrogates(sanitized) = sanitized

\* High, high, low, low sanitized twice: the pair in the middle is left.
C33_Witness ==
  /\ sanitizeCalls = 2
  /\ sanitizeInput = <<55296, 56319, 56320, 57343>>
  /\ sanitized = <<56319, 56320>>

\* ------------------------------------------------------------------------
\* C34
\* ------------------------------------------------------------------------
\* The output message `out` is what the pass makes of the input message
\* `inp`: the same message for a user or other message, the same tool
\* result but for its id, an assistant message of the same origin and stop
\* reason with as many tool calls, of the same names in the same order.
DerivedFrom(out, inp) ==
  /\ out.role = inp.role
  /\ inp.role \notin {"toolResult", "assistant"} => out = inp
  /\ inp.role = "toolResult" =>
       [out EXCEPT !.toolCallId = inp.toolCallId] = inp
  /\ IsAssistant(inp) =>
       /\ <<out.provider, out.api, out.model, out.stopReason>>
            = <<inp.provider, inp.api, inp.model, inp.stopReason>>
       /\ Len(ToolCallsOf(out)) = Len(ToolCallsOf(inp))
       /\ \A k \in 1..Len(ToolCallsOf(inp)) :
            ToolCallsOf(out)[k].name = ToolCallsOf(inp)[k].name

\* Assistant messages of another model that end normally and whose blocks
\* the transformation drops, every one.
EmptiedAssistants ==
  {AssistantMessage(c, CrossProvider, TargetModel.api, TargetModel.id, "stop") :
     c \in {<<ThinkingBlock(<<>>)>>,
            <<ThinkingBlock(<<" ">>),
              [type |-> "thinking", thinking |-> <<>>,
               thinkingSignature |-> "sig"]>>}}

WithoutSynthetic(out) == SelectSeq(out, LAMBDA m : ~IsSynthetic(m))

\* C34 (order preservation): the output without its synthetic results has
\* one message for each input message that is not an error/aborted
\* assistant message, in the same order, each derived from its input
\* message; and an assistant message read next whose blocks are all dropped
\* still adds exactly one message, without content, at the end.
C34_OrderPreserved ==
  /\ Len(Derived) = Len(Kept)
  /\ \A j \in 1..Len(Kept) : DerivedFrom(Derived[j], Kept[j])
  /\ \A msg \in EmptiedAssistants :
       WithoutSynthetic(
         AssistantBranch(State, msg, model, normalizeToolCallId).result)
         = Append(Derived, [msg EXCEPT !.content = <<>>])

\* A message with two calls, an error turn, a tool result and a user
\* message: the output has the message, two synthetic results, the result
\* and the user message.
C34_Witness ==
  /\ Len(messages) = 4
  /\ IsEmittedTurn(messages[1]) /\ Len(ToolCallsOf(messages[1])) = 2
  /\ IsErrorTurn(messages[2])
  /\ messages[3].role = "toolResult"
  /\ messages[4].role = "user"
  /\ Len(result) = 5
  /\ IsSynthetic(result[2]) /\ IsSynthetic(result[3])
  /\ Len(Derived) = 3

\* ------------------------------------------------------------------------
\* C35
\* ------------------------------------------------------------------------
\* The position in Kept of the nearest assistant message before position q
\* (0 when there is none): the nearest emitted assistant message of the
\* input.
EmittedBefore(q) ==
  CHOOSE p \in 0..(q - 1) :
    /\ p = 0 \/ IsAssistant(Kept[p])
    /\ \A j \in (p + 1)..(q - 1) : ~IsAssistant(Kept[j])

\* The position in the output of the j-th message that is not synthetic.
OutputPosition(j) ==
  CHOOSE i \in 1..Len(result) :
    /\ ~IsSynthetic(result[i])
    /\ Len(WithoutSynthetic(SubSeq(result, 1, i))) = j

\* A synthetic result with this id stands in the output after position i
\* and before the next assistant message.
SyntheticFor(i, id) ==
  \E s \in (i + 1)..Len(result) :
    /\ IsSynthetic(result[s])
    /\ result[s].toolCallId = id
    /\ \A j \in (i + 1)..s : ~IsAssistant(result[j])

\* C35 (pairing preservation): a tool result of the input that carries the
\* id of a tool call of the nearest emitted assistant message before it is
\* emitted with the id the emitted call has, and no synthetic result is
\* emitted for that call.
C35_PairingPreserved ==
  \A q \in 1..Len(Kept) :
    Kept[q].role = "toolResult" /\ EmittedBefore(q) # 0 =>
      LET p == EmittedBefore(q)
      IN  \A k \in 1..Len(ToolCallsOf(Kept[p])) :
            ToolCallsOf(Kept[p])[k].id = Kept[q].toolCallId =>
              /\ Derived[q].toolCallId = ToolCallsOf(Derived[p])[k].id
              /\ ~SyntheticFor(OutputPosition(p),
                               ToolCallsOf(Derived[p])[k].id)

\* ------------------------------------------------------------------------
\* C36
\* ------------------------------------------------------------------------
\* The position of the first user or assistant message of the input after
\* position p (0 when there is none).
NextTurnAfter(p) ==
  CHOOSE n \in {0} \cup ((p + 1)..Len(messages)) :
    /\ n = 0 \/ messages[n].role \in {"user", "assistant"}
    /\ \A j \in (p + 1)..(IF n = 0 THEN Len(messages) ELSE n - 1) :
         messages[j].role \notin {"user", "assistant"}

\* The position in the output of the message derived from the input
\* message at position p, which is not an error/aborted message.
EmittedAt(p) ==
  OutputPosition(Len(SelectSeq(SubSeq(messages, 1, p),
                               LAMBDA m : ~IsErrorTurn(m))))

\* C36 as stated, with the ids the messages carry in the input: when an
\* emitted assistant message is followed by a user or assistant message and
\* no tool result between the two carries the id of one of its tool calls,
\* a synthetic result for that call stands after the emitted message.
C36_NoResultWithInputIdThenSynthetic ==
  \A p \in 1..Len(messages) :
    IsEmittedTurn(messages[p]) /\ NextTurnAfter(p) # 0 =>
      \A k \in 1..Len(ToolCallsOf(messages[p])) :
        (\A q \in (p + 1)..(NextTurnAfter(p) - 1) :
           ~(/\ messages[q].role = "toolResult"
             /\ messages[q].toolCallId = ToolCallsOf(messages[p])[k].id))
          => SyntheticFor(EmittedAt(p),
                          ToolCallsOf(result[EmittedAt(p)])[k].id)

\* C36 (an earlier result is no answer), with the ids the messages are
\* emitted with: when an emitted assistant message is followed in the input
\* by a user or assistant message and no tool result between the two is
\* emitted with the id one of its tool calls is emitted with, a synthetic
\* result for that call stands after the emitted message, whatever tool
\* results came before the message.
C36_EarlierResultIsNoAnswer ==
  \A p \in 1..Len(messages) :
    IsEmittedTurn(messages[p]) /\ NextTurnAfter(p) # 0 =>
      \A k \in 1..Len(ToolCallsOf(messages[p])) :
        (\A q \in (p + 1)..(NextTurnAfter(p) - 1) :
           ~(/\ messages[q].role = "toolResult"
             /\ result[EmittedAt(q)].toolCallId
                  = ToolCallsOf(result[EmittedAt(p)])[k].id))
          => SyntheticFor(EmittedAt(p),
                          ToolCallsOf(result[EmittedAt(p)])[k].id)

\* A tool result a, then a message of the target model calling a, then a
\* user message: the call gets a synthetic result.
C36_Witness ==
  /\ Len(messages) = 3
  /\ messages[1].role = "toolResult" /\ messages[1].toolCallId = "a"
  /\ IsEmittedTurn(messages[2]) /\ HasTargetIdentity(messages[2])
  /\ CallIdsOf(messages[2]) = {"a"}
  /\ messages[3].role = "user"
  /\ Len(result) = 4
  /\ IsSynthetic(result[3]) /\ result[3].toolCallId = "a"

\* ------------------------------------------------------------------------
\* C37
\* ------------------------------------------------------------------------
\* The text displayed for the streamed block: that of its Markdown unit or
\* of its placeholder, empty while the block has no unit.
DisplayedText(children) ==
  LET units == SelectSeq(children, LAMBDA u : u.kind # "Spacer")
  IN  IF units = <<>> THEN <<>> ELSE units[1].text

\* The text displayed for the streamed block by an updateContent with the
\* text t, under the current collapsed flag.
DisplayedFor(t) ==
  LET block == IF lastMessage.content[1].type = "text"
                 THEN TextBlock(t) ELSE ThinkingBlock(t)
  IN  DisplayedText(
        UpdateContent(Constructor(hideThinkingBlock),
                      Snapshot(<<block>>, "stop")).contentContainer)

\* C37 (no retraction during streaming): while the text of a block grows,
\* every updateContent extends the text displayed for it; the text
\* displayed for every shorter snapshot is a prefix of the text displayed
\* now; and the text displayed now is a prefix of the text displayed after
\* finalise.
C37_NoRetraction ==
  /\ [][IsPrefixOf(DisplayedText(contentContainer),
                   DisplayedText(contentContainer'))]_componentVars
  /\ [](lastMessage # NoMessage =>
          /\ DisplayedText(contentContainer)
               = DisplayedFor(BlockText(lastMessage.content[1]))
          /\ \A p \in Prefixes(BlockText(lastMessage.content[1])) :
               IsPrefixOf(DisplayedFor(p), DisplayedText(contentContainer)))
  /\ [](IsPrefixOf(DisplayedText(contentContainer),
                   DisplayedText(Finalise(Component).contentContainer)))

\* Two lines and the start of a third were streamed: the two lines are
\* displayed, and finalise would add the third.
C37_Witness ==
  /\ streaming
  /\ lastMessage # NoMessage
  /\ lastMessage.content = <<TextBlock(<<"x", "\n", " ", "x", "\n", "x">>)>>
  /\ DisplayedText(contentContainer) = <<"x", "\n", " ", "x">>
  /\ DisplayedText(Finalise(Component).contentContainer)
       = <<"x", "\n", " ", "x", "\n", "x">>

\* ------------------------------------------------------------------------
\* C38
\* ------------------------------------------------------------------------
\* The render units of the component c are those its snapshot and flags
\* determine.
UpToDate(c) ==
  IF c.lastMessage = NoMessage
    THEN c.contentContainer = <<>>
    ELSE Units(c.contentContainer) = Units(UnitsOfState(c))

\* C38 as stated: after every operation, setHideThinkingBlock included, the
\* render units are those determined by the last snapshot, the streaming
\* flag and the collapsed flag.
C38_OutputAlwaysOfState == UpToDate(Component)

\* C38 (output and state, amended): after updateContent, finalise and
\* invalidate the render units are those determined by the last snapshot
\* and the two flags; setHideThinkingBlock leaves the render units as they
\* were, so that the output is the one of the current snapshot and
\* streaming flag under the current or under the other value of the
\* collapsed flag, and an invalidate after it shows the new mode.
C38_OutputOfStateAfterRebuild ==
  /\ \A c \in Rebuilt : UpToDate(c)
  /\ lastMessage = NoMessage =>
       /\ UpToDate(Finalise(Component))
       /\ UpToDate(Invalidate(Component))
  /\ \A hide \in BOOLEAN :
       LET set == SetHideThinkingBlock(Component, hide)
       IN  /\ set.contentContainer = contentContainer
           /\ UpToDate(Invalidate(set))
  /\ \/ UpToDate(Component)
     \/ UpToDate([Component EXCEPT !.hideThinkingBlock = ~hideThinkingBlock])

\* An expanded thinking block was displayed and the flag was then set: the
\* output still shows the thinking text, and an invalidate would show the
\* placeholder.
C38_Witness ==
  /\ hideThinkingBlock
  /\ lastMessage # NoMessage
  /\ lastMessage.content = <<ThinkingBlock(<<"x", "\n">>)>>
  /\ markdownPool = EmptyMap
  /\ KindsAndTexts(contentContainer)
       = KindsAndTexts(<<Spacer, Markdown(0, <<"x">>, "thinkingText")>>)
  /\ KindsAndTexts(Invalidate(Component).contentContainer)
       = KindsAndTexts(<<Spacer, Text(<<"Thinking...">>, "thinkingText")>>)

\* ------------------------------------------------------------------------
\* C39
\* ------------------------------------------------------------------------
\* A text, thinking or placeholder unit.
IsContentUnit(u) == u.kind \in {"Markdown", "Text"}

\* In the units before the notice, a leading separator is followed by a
\* content unit, and every other separator stands between two content
\* units.
SeparatorsHaveContent(body) ==
  \A k \in 1..Len(body) :
    body[k].kind = "Spacer" =>
      /\ k < Len(body) /\ IsContentUnit(body[k + 1])
      /\ k > 1 => IsContentUnit(body[k - 1])

\* No block of the snapshot of c has non-whitespace text of which streaming
\* withholds everything.
NothingWithheld(c) ==
  \A k \in 1..Len(c.lastMessage.content) :
    LET b == c.lastMessage.content[k]
    IN  IsNonEmptyBlock(b) =>
          \/ ~c.streaming
          \/ b.type = "thinking" /\ c.hideThinkingBlock
          \/ StreamedText(BlockText(b)) # <<>>

\* C39 as stated: in every rebuilt output, streaming or finalised, every
\* separator has its content.
C39_SeparatorsNeverWithoutContent ==
  \A c \in Rebuilt : SeparatorsHaveContent(Body(c.contentContainer))

\* C39 (separators and content, amended): in every rebuilt output of a
\* finalised component, and of a streaming one whose blocks each display
\* some of their text, the leading separator is followed by a content unit
\* and a separator after a thinking block stands between two content units.
C39_SeparatorsWithContentUnlessWithheld ==
  \A c \in Rebuilt :
    NothingWithheld(c) => SeparatorsHaveContent(Body(c.contentContainer))

\* A finalised, collapsed component with a thinking block and a text block
\* of one unterminated line each: separator, placeholder, separator, text.
C39_Witness ==
  /\ ~streaming /\ hideThinkingBlock
  /\ lastMessage # NoMessage
  /\ Len(lastMessage.content) = 2
  /\ lastMessage.content[1] = ThinkingBlock(<<"x">>)
  /\ lastMessage.content[2].type = "text"
  /\ KindsAndTexts(contentContainer)
       = << <<"Spacer">>, <<"Text", <<"Thinking...">> >>, <<"Spacer">>,
            <<"Markdown", <<"x">> >> >>

====
